---- MODULE Spec2Model ----
(***************************************************************************)
(* A model of the context-aggregation layer of the fantasy waiver tool:    *)
(* the market context resolver (parseVegasForCompetition,                  *)
(* buildTeamContexts), the freshness-bounded caches (createCache, the      *)
(* weather and scoreboard caches) and the defense-rank normalizer.         *)
(*                                                                         *)
(* JavaScript numbers are modelled as exact reduced fractions [n, d] with  *)
(* d > 0; d = 0 stands for a non-finite number (NaN).  JavaScript strings  *)
(* are sequences of one-character strings, so that trimming, case          *)
(* conversion, splitting and number parsing are computed, not assumed.     *)
(***************************************************************************)
EXTENDS Integers, Sequences, FiniteSets, TLC

VARIABLES
  scoreboard,   \* SpecVegas: the scoreboard payload handed to buildTeamContexts
  parsed,       \* SpecVegas: per event, the result of parseVegasForCompetition
  contexts,     \* SpecVegas: the index built by buildTeamContexts
  built,        \* SpecVegas: TRUE once buildTeamContexts has run on scoreboard
  target,       \* SpecCache: the cache the requests of this run go through
  now,          \* SpecCache: Date.now(), in milliseconds since the process started
  icache,       \* SpecCache: value and expiresAt of a createCache instance (index.js)
  weatherCache, \* SpecCache: the weatherCache Map, team -> {value, expiresAt}
  scoreboardCache, \* SpecCache: the scoreboardCache object of the server
  req,          \* SpecCache: per request, where its handler stands and what it saw
  lastOk,       \* SpecCache: the most recently completed successful load, if any
  defenseEnv,   \* SpecDefense: the DEFENSE_WEIGHT_* variables of the process
  rawPayload,   \* SpecDefense: the argument of normalizeDefenseRanks
  mapped,       \* SpecDefense: what rows.map produced, one value per row
  normalizedRanks,   \* SpecDefense: what normalizeDefenseRanks returned, or that it threw
  normalizeDone, \* SpecDefense: normalizeDefenseRanks has run
  weightEnv,    \* SpecWeights: the DEFENSE_WEIGHT_* variables at module load
  resolved,     \* SpecWeights: what resolveDefenseWeights returned, once it has run
  csvSource, \* SpecCsv: the field values a row was written from (empty: a raw line)
  csvLine, \* SpecCsv: the row handed to splitCsvLine
  csvFields, \* SpecCsv: what splitCsvLine returned, once it has run
  players, \* SpecSearch: the raw Sleeper players the directory is built from
  searchQuery, \* SpecSearch: the trimmed query or name parameter of the request
  searchLimit, \* SpecSearch: the limit parameter of the request
  searchOut, \* SpecSearch: what the route computed, once it has run
  scorePlayer, \* SpecScore: the player record calcScore is called on
  viewMode, \* SpecScore: the view mode state of the Home component
  scoreCalls, \* SpecScore: the calls of calcScore so far: mode, intermediate values, result
  rankSource, \* SpecRefresh: process.env.DEFENSE_RANKINGS_SOURCE
  refreshNow, \* SpecRefresh: Date.now() as refreshDefenseRanks reads it
  lastDefenseRefresh, \* SpecRefresh: the time of the last successful refresh
  defenseSourceWarningLogged, \* SpecRefresh: the flag of the configuration warning
  warnings, \* SpecRefresh: how many times the configuration warning was logged
  defenseRanks, \* SpecRefresh: the defense ranks in memory
  defenseFile, \* SpecRefresh: the array stored in data/defense-rankings.json
  refreshCall, \* SpecRefresh: per call of refreshDefenseRanks, where it stands
  lookupArgs, \* SpecLookup: the function called and its arguments
  lookupOut, \* SpecLookup: what the call came to: returned or thrown, and the value
  boardCache, \* SpecBoard: the scoreboardCache object: data, expiresAt, dateKey, contexts
  boardNow, \* SpecBoard: Date.now() as getScoreboard reads it
  boardCall, \* SpecBoard: per call of getScoreboard, its caller and where it stands
  newsCache, \* SpecNews: the newsCache object: data and expiresAt
  newsNow, \* SpecNews: Date.now() as getFantasyNews reads it
  newsCall \* SpecNews: per call of getFantasyNews, where it stands and what it returned

vegasVars == <<scoreboard, parsed, contexts, built>>
cacheVars == <<target, now, icache, weatherCache, scoreboardCache, req, lastOk>>
defenseVars == <<defenseEnv, rawPayload, mapped, normalizedRanks, normalizeDone>>
weightsVars == <<weightEnv, resolved>>
csvVars == <<csvSource, csvLine, csvFields>>
searchVars == <<players, searchQuery, searchLimit, searchOut>>
scoreVars == <<scorePlayer, viewMode, scoreCalls>>
refreshVars == <<rankSource, refreshNow, lastDefenseRefresh, defenseSourceWarningLogged, warnings, defenseRanks, defenseFile, refreshCall>>
lookupVars == <<lookupArgs, lookupOut>>
boardVars == <<boardCache, boardNow, boardCall>>
newsVars == <<newsCache, newsNow, newsCall>>
vars == <<vegasVars, cacheVars, defenseVars, weightsVars, csvVars, searchVars, scoreVars, refreshVars, lookupVars, boardVars, newsVars>>

\* What the steps of one specification leave alone: the variables of the others.
outsideVegas == <<cacheVars, defenseVars, weightsVars, csvVars, searchVars, scoreVars, refreshVars, lookupVars, boardVars, newsVars>>
outsideCache == <<vegasVars, defenseVars, weightsVars, csvVars, searchVars, scoreVars, refreshVars, lookupVars, boardVars, newsVars>>
outsideDefense == <<vegasVars, cacheVars, weightsVars, csvVars, searchVars, scoreVars, refreshVars, lookupVars, boardVars, newsVars>>
outsideWeights == <<vegasVars, cacheVars, defenseVars, csvVars, searchVars, scoreVars, refreshVars, lookupVars, boardVars, newsVars>>
outsideCsv == <<vegasVars, cacheVars, defenseVars, weightsVars, searchVars, scoreVars, refreshVars, lookupVars, boardVars, newsVars>>
outsideSearch == <<vegasVars, cacheVars, defenseVars, weightsVars, csvVars, scoreVars, refreshVars, lookupVars, boardVars, newsVars>>
outsideScore == <<vegasVars, cacheVars, defenseVars, weightsVars, csvVars, searchVars, refreshVars, lookupVars, boardVars, newsVars>>
outsideRefresh == <<vegasVars, cacheVars, defenseVars, weightsVars, csvVars, searchVars, scoreVars, lookupVars, boardVars, newsVars>>
outsideLookup == <<vegasVars, cacheVars, defenseVars, weightsVars, csvVars, searchVars, scoreVars, refreshVars, boardVars, newsVars>>
outsideBoard == <<vegasVars, cacheVars, defenseVars, weightsVars, csvVars, searchVars, scoreVars, refreshVars, lookupVars, newsVars>>
outsideNews == <<vegasVars, cacheVars, defenseVars, weightsVars, csvVars, searchVars, scoreVars, refreshVars, lookupVars, boardVars>>

(***************************************************************************)
(* Numbers                                                                 *)
(***************************************************************************)
Abs(i) == IF i < 0 THEN -i ELSE i

RECURSIVE Gcd(_, _)
Gcd(a, b) == IF b = 0 THEN a ELSE Gcd(b, a % b)

NaN == [n |-> 0, d |-> 0]

Frac(n, d) ==
  IF d = 0 THEN NaN
  ELSE LET g == Gcd(Abs(n), Abs(d))
           s == IF d < 0 THEN -1 ELSE 1
       IN  [n |-> (s * n) \div g, d |-> (s * d) \div g]

Whole(i) == [n |-> i, d |-> 1]

\* Number.isFinite
IsFinite(x) == x.d # 0

\* The sum over the least common denominator (g divides both denominators).
AddOver(a, b, g) == Frac(a.n * (b.d \div g) + b.n * (a.d \div g), (a.d \div g) * b.d)
Add(a, b) == IF a.d = 0 \/ b.d = 0 THEN NaN ELSE AddOver(a, b, Gcd(a.d, b.d))
Neg(a) == [n |-> -a.n, d |-> a.d]
Sub(a, b) == Add(a, Neg(b))
\* The product with the common factors g (of a.n and b.d) and h (of b.n and
\* a.d) taken out first.
MulOver(a, b, g, h) == Frac((a.n \div g) * (b.n \div h), (a.d \div h) * (b.d \div g))
Mul(a, b) ==
  IF a.d = 0 \/ b.d = 0 THEN NaN ELSE MulOver(a, b, Gcd(Abs(a.n), b.d), Gcd(Abs(b.n), a.d))
Div(a, b) == IF a.d = 0 \/ b.d = 0 \/ b.n = 0 THEN NaN ELSE Frac(a.n * b.d, a.d * b.n)
Less(a, b) == a.d # 0 /\ b.d # 0 /\ a.n * b.d < b.n * a.d
LessEq(a, b) == a.d # 0 /\ b.d # 0 /\ a.n * b.d <= b.n * a.d

\* Math.abs
MathAbs(a) == [n |-> Abs(a.n), d |-> a.d]

\* Number(x.toFixed(1)): the nearest tenth, a tie going away from zero.
ToFixed1(x) ==
  IF x.d = 0 THEN NaN
  ELSE LET t == Abs(x.n) * 10
           q == (2 * t + x.d) \div (2 * x.d)
       IN  Frac(IF x.n < 0 THEN -q ELSE q, 10)

(***************************************************************************)
(* Strings                                                                 *)
(***************************************************************************)
LowerAlphabet ==
  <<"a", "b", "c", "d", "e", "f", "g", "h", "i", "j", "k", "l", "m",
    "n", "o", "p", "q", "r", "s", "t", "u", "v", "w", "x", "y", "z">>

UpperAlphabet ==
  <<"A", "B", "C", "D", "E", "F", "G", "H", "I", "J", "K", "L", "M",
    "N", "O", "P", "Q", "R", "S", "T", "U", "V", "W", "X", "Y", "Z">>

DigitChars == <<"0", "1", "2", "3", "4", "5", "6", "7", "8", "9">>

IndexIn(alphabet, c) ==
  IF \E i \in 1..Len(alphabet) : alphabet[i] = c
  THEN CHOOSE i \in 1..Len(alphabet) : alphabet[i] = c
  ELSE 0

UpperChar(c) == IF IndexIn(LowerAlphabet, c) > 0 THEN UpperAlphabet[IndexIn(LowerAlphabet, c)] ELSE c
LowerChar(c) == IF IndexIn(UpperAlphabet, c) > 0 THEN LowerAlphabet[IndexIn(UpperAlphabet, c)] ELSE c

\* String.prototype.toUpperCase / toLowerCase
ToUpperCase(s) == [i \in 1..Len(s) |-> UpperChar(s[i])]
ToLowerCase(s) == [i \in 1..Len(s) |-> LowerChar(s[i])]

IsSpace(c) == c = " "
IsDigit(c) == IndexIn(DigitChars, c) > 0
DigitVal(c) == IndexIn(DigitChars, c) - 1

RECURSIVE TrimStart(_)
TrimStart(s) == IF s # <<>> /\ IsSpace(Head(s)) THEN TrimStart(Tail(s)) ELSE s

RECURSIVE TrimEnd(_)
TrimEnd(s) == IF s # <<>> /\ IsSpace(s[Len(s)]) THEN TrimEnd(SubSeq(s, 1, Len(s) - 1)) ELSE s

\* String.prototype.trim
Trim(s) == TrimEnd(TrimStart(s))

\* s.split(" ").filter(Boolean): the maximal runs of non-space characters.
RECURSIVE SplitSpaces(_, _)
SplitSpaces(s, cur) ==
  IF s = <<>> THEN (IF cur = <<>> THEN <<>> ELSE <<cur>>)
  ELSE IF IsSpace(Head(s))
       THEN (IF cur = <<>> THEN <<>> ELSE <<cur>>) \o SplitSpaces(Tail(s), <<>>)
       ELSE SplitSpaces(Tail(s), Append(cur, Head(s)))

\* The number of digits at the head of s.
RECURSIVE DigitRun(_)
DigitRun(s) == IF s # <<>> /\ IsDigit(Head(s)) THEN 1 + DigitRun(Tail(s)) ELSE 0

RECURSIVE DigitsValue(_, _)
DigitsValue(s, acc) == IF s = <<>> THEN acc ELSE DigitsValue(Tail(s), 10 * acc + DigitVal(Head(s)))

RECURSIVE Pow10(_)
Pow10(k) == IF k = 0 THEN 1 ELSE 10 * Pow10(k - 1)

\* The longest decimal literal (sign, digits, fraction) at the head of s:
\* its value and its length; length 0 when s starts with none.
DecimalResult(sign, signLen, intDigits, fracDigits, hasDot) ==
  IF intDigits = <<>> /\ fracDigits = <<>>
  THEN [val |-> NaN, len |-> 0]
  ELSE [val |-> Frac(sign * (DigitsValue(intDigits, 0) * Pow10(Len(fracDigits))
                               + DigitsValue(fracDigits, 0)),
                     Pow10(Len(fracDigits))),
        len |-> signLen + Len(intDigits) + (IF hasDot THEN 1 + Len(fracDigits) ELSE 0)]

DecimalFraction(sign, signLen, intDigits, rest) ==
  IF rest # <<>> /\ Head(rest) = "."
  THEN DecimalResult(sign, signLen, intDigits, SubSeq(Tail(rest), 1, DigitRun(Tail(rest))), TRUE)
  ELSE DecimalResult(sign, signLen, intDigits, <<>>, FALSE)

DecimalInteger(sign, signLen, body, intLen) ==
  DecimalFraction(sign, signLen, SubSeq(body, 1, intLen), SubSeq(body, intLen + 1, Len(body)))

DecimalPrefix(s) ==
  IF s # <<>> /\ Head(s) = "-" THEN DecimalInteger(-1, 1, Tail(s), DigitRun(Tail(s)))
  ELSE IF s # <<>> /\ Head(s) = "+" THEN DecimalInteger(1, 1, Tail(s), DigitRun(Tail(s)))
  ELSE DecimalInteger(1, 0, s, DigitRun(s))

(***************************************************************************)
(* JavaScript values                                                       *)
(***************************************************************************)
JsUndef == [t |-> "undef"]
JsNull == [t |-> "null"]
JsNum(x) == [t |-> "num", num |-> x]
JsStr(s) == [t |-> "str", str |-> s]
JsObj(o) == [t |-> "obj", obj |-> o]

\* parseFloat of a string
ParseFloat(s) == DecimalPrefix(TrimStart(s)).val

\* Number(s) of a trimmed string: the whole string must be a decimal literal.
WholeLiteral(t, prefix) ==
  IF t = <<>> THEN Whole(0)
  ELSE IF prefix.len = Len(t) THEN prefix.val ELSE NaN

StringToNumber(t) == WholeLiteral(t, DecimalPrefix(t))

\* Number(v)
ToNumber(v) ==
  CASE v.t = "undef" -> NaN
    [] v.t = "null" -> Whole(0)
    [] v.t = "num" -> v.num
    [] v.t = "str" -> StringToNumber(Trim(v.str))
    [] OTHER -> NaN

\* The truthiness of a value
Truthy(v) ==
  CASE v.t = "undef" -> FALSE
    [] v.t = "null" -> FALSE
    [] v.t = "num" -> v.num.d # 0 /\ v.num.n # 0
    [] v.t = "str" -> v.str # <<>>
    [] OTHER -> TRUE

(***************************************************************************)
(* Market context resolver                                                 *)
(***************************************************************************)
NullVegas == [isNull |-> TRUE]

\* const odds = comp.odds?.[0] || {}
EmptyOdds == [overUnder |-> JsUndef, details |-> JsUndef, spread |-> JsUndef]

\* The league-average total used when odds.overUnder is not a finite number.
DEFAULT_TOTAL == 45

\* (odds.details || "").split(" ").filter(Boolean)
DetailTokens(odds) ==
  IF odds.details.t = "str" THEN SplitSpaces(odds.details.str, <<>>) ELSE <<>>

\* competitors.find((c) => c.homeAway === side): the first such competitor.
FindSide(competitors, side) ==
  LET hits == {i \in 1..Len(competitors) : competitors[i].homeAway = side}
  IN  IF hits = {} THEN JsUndef
      ELSE JsObj(competitors[CHOOSE i \in hits : \A j \in hits : i <= j])

\* c.team?.abbreviation?.toUpperCase()
AbbrOf(side) ==
  IF side.obj.abbr.t = "str" THEN JsStr(ToUpperCase(side.obj.abbr.str)) ELSE JsUndef

\* The signed spread given to the home side (lines 101-114).
HomeSpreadOf(favoredToken, absSpread, homeAbbr, awayAbbr) ==
  IF favoredToken.t = "str" /\ absSpread.n # 0
  THEN IF favoredToken = homeAbbr THEN Neg(absSpread)
       ELSE IF favoredToken = awayAbbr THEN absSpread
       ELSE Neg(absSpread)
  ELSE Whole(0)

AwaySpreadMirrorsElseBranch(favoredToken, absSpread, homeAbbr, awayAbbr) ==
  IF favoredToken.t = "str" /\ absSpread.n # 0
  THEN IF favoredToken = homeAbbr THEN absSpread
       ELSE IF favoredToken = awayAbbr THEN Neg(absSpread)
       ELSE Neg(absSpread)
  ELSE Whole(0)

\* The signed spread given to the away side (lines 101-114).
AwaySpreadOf(favoredToken, absSpread, homeAbbr, awayAbbr) ==
  IF favoredToken.t = "str" /\ absSpread.n # 0
  THEN IF favoredToken = homeAbbr THEN absSpread
       ELSE IF favoredToken = awayAbbr THEN Neg(absSpread)
       ELSE absSpread
  ELSE Whole(0)

ImpliedAwayFromAwaySpread(total, homeSpread, awaySpread) ==
  Add(Div(total, Whole(2)), Div(awaySpread, Whole(2)))

\* const impliedHome = total / 2 - homeSpread / 2
ImpliedHome(total, homeSpread, awaySpread) ==
  Sub(Div(total, Whole(2)), Div(homeSpread, Whole(2)))

\* const impliedAway = total / 2 + homeSpread / 2
ImpliedAway(total, homeSpread, awaySpread) ==
  Add(Div(total, Whole(2)), Div(homeSpread, Whole(2)))

\* Number.isFinite(x) ? Number(x.toFixed(1)) : null
FixedOrNull(x) == IF IsFinite(x) THEN JsNum(ToFixed1(x)) ELSE JsNull

\* const total = Number.isFinite(parsedTotal) ? parsedTotal : 45
TotalOf(parsedTotal) == IF IsFinite(parsedTotal) THEN parsedTotal ELSE Whole(DEFAULT_TOTAL)

\* const favoredToken = detailTokens[0]?.toUpperCase()
FavoredToken(detailTokens) ==
  IF detailTokens # <<>> THEN JsStr(ToUpperCase(detailTokens[1])) ELSE JsUndef

\* const detailSpreadToken = detailTokens[1] ?? detailTokens[detailTokens.length - 1]
DetailSpreadToken(detailTokens) ==
  IF Len(detailTokens) >= 2 THEN JsStr(detailTokens[2])
  ELSE IF detailTokens # <<>> THEN JsStr(detailTokens[Len(detailTokens)])
  ELSE JsUndef

\* let detailSpread = parseFloat(detailSpreadToken)
ParseSpreadToken(token) == IF token.t = "str" THEN ParseFloat(token.str) ELSE NaN

\* Lines 87-92: fall back to a numeric odds.spread, then to 0.
SpreadOrFallback(fromDetails, spreadField) ==
  IF IsFinite(fromDetails) THEN fromDetails
  ELSE IF spreadField.t = "num" /\ IsFinite(spreadField.num) THEN spreadField.num
  ELSE Whole(0)

DetailSpread(odds, detailTokens) ==
  SpreadOrFallback(ParseSpreadToken(DetailSpreadToken(detailTokens)), odds.spread)

\* The object returned at lines 123-139.
VegasRecord(total, detailSpread, homeSpread, awaySpread, homeAbbr, awayAbbr, kickoff) ==
  [isNull |-> FALSE,
   total |-> total,
   spread |-> ToFixed1(detailSpread),
   kickoff |-> kickoff,
   home |-> [abbr |-> homeAbbr,
             implied |-> FixedOrNull(ImpliedHome(total, homeSpread, awaySpread)),
             spread |-> ToFixed1(homeSpread)],
   away |-> [abbr |-> awayAbbr,
             implied |-> FixedOrNull(ImpliedAway(total, homeSpread, awaySpread)),
             spread |-> ToFixed1(awaySpread)]]

\* Lines 101-139, once the favored token and the spread are known.
VegasFor(total, detailSpread, favoredToken, homeAbbr, awayAbbr, kickoff) ==
  VegasRecord(total, detailSpread,
              HomeSpreadOf(favoredToken, MathAbs(detailSpread), homeAbbr, awayAbbr),
              AwaySpreadOf(favoredToken, MathAbs(detailSpread), homeAbbr, awayAbbr),
              homeAbbr, awayAbbr, kickoff)

\* Lines 95-99: the two sides; null when either is missing.
VegasOfSides(odds, detailTokens, home, away, kickoff) ==
  IF home.t = "undef" \/ away.t = "undef" THEN NullVegas
  ELSE VegasFor(TotalOf(ToNumber(odds.overUnder)), DetailSpread(odds, detailTokens),
                FavoredToken(detailTokens), AbbrOf(home), AbbrOf(away), kickoff)

VegasOfOdds(comp, odds) ==
  VegasOfSides(odds, DetailTokens(odds),
               FindSide(comp.competitors, "home"), FindSide(comp.competitors, "away"),
               comp.date)

\* venue and broadcast are copied through unchanged and are left out.
parseVegasForCompetition(comp) ==
  IF comp.t # "obj" \/ comp.obj.competitors = <<>> THEN NullVegas
  ELSE VegasOfOdds(comp.obj, IF comp.obj.odds # <<>> THEN comp.obj.odds[1] ELSE EmptyOdds)

\* const comp = event?.competitions?.[0]
FirstCompetition(event) ==
  IF event.competitions # <<>> THEN event.competitions[1] ELSE JsUndef

\* pushContext(team, opponent), lines 149-162
pushContext(vegas, event, team, opponent) ==
  [team |-> team.abbr.str,
   opponent |-> opponent.abbr.str,
   impliedTotal |-> team.implied,
   opponentImpliedTotal |-> opponent.implied,
   overUnder |-> ToFixed1(vegas.total),
   spread |-> team.spread,
   opponentSpread |-> opponent.spread,
   kickoff |-> IF vegas.kickoff # "" THEN vegas.kickoff ELSE event.date]

\* if (!vegas || !vegas.home?.abbr || !vegas.away?.abbr) return
GameUsable(vegas) ==
  /\ ~vegas.isNull
  /\ Truthy(vegas.home.abbr)
  /\ Truthy(vegas.away.abbr)

\* contexts[team.abbr] = {...}
SetContext(ctxs, key, ctx) == (key :> ctx) @@ ctxs

\* Lines 147-164 for one parsed game.
AddGameContexts(ctxs, event, vegas) ==
  IF ~GameUsable(vegas) THEN ctxs
  ELSE SetContext(SetContext(ctxs, vegas.home.abbr.str,
                             pushContext(vegas, event, vegas.home, vegas.away)),
                  vegas.away.abbr.str,
                  pushContext(vegas, event, vegas.away, vegas.home))

\* One forEach step of buildTeamContexts on the index built so far.
AddEventContexts(ctxs, event) ==
  AddGameContexts(ctxs, event, parseVegasForCompetition(FirstCompetition(event)))

RECURSIVE FoldEvents(_, _)
FoldEvents(ctxs, events) ==
  IF events = <<>> THEN ctxs
  ELSE FoldEvents(AddEventContexts(ctxs, Head(events)), Tail(events))

EmptyContexts == [k \in {} |-> k]

\* scoreboard?.events?.forEach(...)
buildTeamContexts(sb) ==
  IF sb.isNull THEN EmptyContexts ELSE FoldEvents(EmptyContexts, sb.events)

(***************************************************************************)
(* Scoreboard payloads                                                     *)
(***************************************************************************)
KC == <<"K", "C">>
DAL == <<"D", "A", "L">>
BUF == <<"B", "U", "F">>

\* odds.details
DetailStrings ==
  { JsUndef,
    JsStr(<<"K", "C", " ", "-", "3", ".", "5">>),
    JsStr(<<"D", "A", "L", " ", "-", "7">>),
    JsStr(<<"k", "c", " ", "-", "2", ".", "2", "5">>),
    JsStr(<<"E", "V", "E", "N">>),
    JsStr(<<"B", "U", "F", " ", "-", "3">>),
    JsStr(<<"-", "3", ".", "5">>),
    JsStr(<<"K", "C", " ", " ", "-", "1", ".", "5", " ", "n", "o", "w">>),
    JsStr(<<"D", "A", "L", " ", "+", "4", ".", "7", "5">>) }

\* odds.overUnder
OverUnders ==
  { JsUndef, JsNull,
    JsNum(Frac(91, 2)), JsNum(Frac(189, 4)), JsNum(Whole(41)), JsNum(Frac(355, 8)),
    JsStr(<<"4", "4", ".", "5">>), JsStr(<<"N", "/", "A">>) }

\* odds.spread
SpreadFields == { JsUndef, JsNum(Whole(3)), JsNum(Frac(-13, 2)), JsStr(<<"2", ".", "5">>) }

Competitor(side, abbr) == [homeAway |-> side, abbr |-> abbr]

CompetitorLists ==
  { <<Competitor("home", JsStr(KC)), Competitor("away", JsStr(DAL))>>,
    <<Competitor("away", JsStr(DAL)), Competitor("home", JsStr(KC))>>,
    <<Competitor("home", JsStr(<<"k", "c">>)), Competitor("away", JsStr(<<"d", "a", "l">>))>>,
    <<Competitor("home", JsStr(BUF)), Competitor("away", JsStr(KC))>>,
    <<Competitor("home", JsStr(KC)), Competitor("away", JsUndef)>>,
    <<Competitor("home", JsStr(KC))>>,
    <<>> }

OddsBlocks ==
  { <<>> } \cup
  { <<[overUnder |-> ou, details |-> dt, spread |-> sp]>> :
      ou \in OverUnders, dt \in DetailStrings, sp \in SpreadFields }

Competitions ==
  { JsObj([competitors |-> cl, odds |-> ob, date |-> "sun-1pm"]) :
      cl \in CompetitorLists, ob \in OddsBlocks }

\* The games used in the scoreboards of more than one event.
FewCompetitions ==
  { JsObj([competitors |-> cl, odds |-> ob, date |-> ""]) :
      cl \in { <<Competitor("home", JsStr(KC)), Competitor("away", JsStr(DAL))>>,
               <<Competitor("home", JsStr(BUF)), Competitor("away", JsStr(KC))>> },
      ob \in { <<>>,
               <<[overUnder |-> JsNum(Whole(41)), details |-> JsStr(<<"K", "C", " ", "-", "3", ".", "5">>),
                  spread |-> JsUndef]>> } }

Event(comp) == [competitions |-> <<comp>>, date |-> "sun"]

MaxEvents == 2

RECURSIVE EventLists(_)
EventLists(n) ==
  IF n = 0 THEN { <<>> }
  ELSE { Append(l, Event(c)) : l \in EventLists(n - 1), c \in FewCompetitions }

NullScoreboard == [isNull |-> TRUE, events |-> <<>>]

Scoreboards ==
  { NullScoreboard }
    \cup { [isNull |-> FALSE, events |-> <<Event(c)>>] : c \in Competitions }
    \cup { [isNull |-> FALSE, events |-> <<[competitions |-> <<>>, date |-> "sun"]>>] }
    \cup UNION { { [isNull |-> FALSE, events |-> l] : l \in EventLists(n) } : n \in 0..MaxEvents }

(***************************************************************************)
(* SpecVegas: buildTeamContexts applied to a scoreboard payload            *)
(***************************************************************************)
VegasIdle ==
  /\ scoreboard = NullScoreboard
  /\ parsed = <<>>
  /\ contexts = EmptyContexts
  /\ built = FALSE

BuildContexts ==
  /\ ~built
  /\ parsed' = [i \in 1..Len(scoreboard.events) |->
                  parseVegasForCompetition(FirstCompetition(scoreboard.events[i]))]
  /\ contexts' = buildTeamContexts(scoreboard)
  /\ built' = TRUE
  /\ UNCHANGED scoreboard
  /\ UNCHANGED outsideVegas

NextVegas == BuildContexts

\* The two contexts of game i are the ones in the index (no later game of the
\* same snapshot has replaced either of them).
GameIndexed(i) ==
  /\ GameUsable(parsed[i])
  /\ parsed[i].home.abbr # parsed[i].away.abbr
  /\ contexts[parsed[i].home.abbr.str].opponent = parsed[i].away.abbr.str
  /\ contexts[parsed[i].away.abbr.str].opponent = parsed[i].home.abbr.str

HomeContext(i) == contexts[parsed[i].home.abbr.str]
AwayContext(i) == contexts[parsed[i].away.abbr.str]

\* C1: for every game that has contexts, the stored impliedTotal of the home
\* context plus that of the away context differs from the stored overUnder
\* by at most 0.1.
C1_ImpliedTotalsSumToOverUnder ==
  built =>
    \A i \in 1..Len(parsed) :
      GameIndexed(i) =>
        /\ HomeContext(i).impliedTotal.t = "num"
        /\ AwayContext(i).impliedTotal.t = "num"
        /\ LessEq(MathAbs(Sub(Add(HomeContext(i).impliedTotal.num,
                                  AwayContext(i).impliedTotal.num),
                              HomeContext(i).overUnder)),
                  Frac(1, 10))

\* A game with a non-zero spread whose rounded implied totals sum to a tenth
\* more or less than the stored overUnder.
C1_Witness ==
  /\ built
  /\ \E i \in 1..Len(parsed) :
       /\ GameIndexed(i)
       /\ HomeContext(i).spread # Whole(0)
       /\ MathAbs(Sub(Add(HomeContext(i).impliedTotal.num, AwayContext(i).impliedTotal.num),
                      HomeContext(i).overUnder)) = Frac(1, 10)

\* C2: in the two contexts of one game the home spread is the negation of the
\* away spread, and each context's opponentSpread is the negation of its own
\* spread.
C2_SpreadsAreNegations ==
  built =>
    \A i \in 1..Len(parsed) :
      GameIndexed(i) =>
        /\ HomeContext(i).spread = Neg(AwayContext(i).spread)
        /\ HomeContext(i).opponentSpread = Neg(HomeContext(i).spread)
        /\ AwayContext(i).opponentSpread = Neg(AwayContext(i).spread)

\* A game whose favored token names neither team (BUF while KC hosts DAL):
\* the home side gets the negative spread.
C2_Witness ==
  /\ built
  /\ Len(parsed) = 1
  /\ GameIndexed(1)
  /\ scoreboard.events[1].competitions[1].obj.odds # <<>>
  /\ scoreboard.events[1].competitions[1].obj.odds[1].details = JsStr(<<"B", "U", "F", " ", "-", "3">>)
  /\ parsed[1].home.abbr = JsStr(KC)
  /\ HomeContext(1).spread = Whole(-3)
  /\ AwayContext(1).spread = Whole(3)

\* The competition of event i carries no odds block (odds missing or empty).
NoOddsBlock(i) ==
  /\ scoreboard.events[i].competitions # <<>>
  /\ scoreboard.events[i].competitions[1].obj.odds = <<>>

\* C13: a game whose competition has no odds block produces no context: when
\* no game of the scoreboard carries an odds block, no team code is a key of
\* the context index after buildTeamContexts.
C13_NoOddsGivesNoContext ==
  (built /\ \A i \in 1..Len(scoreboard.events) : NoOddsBlock(i))
    => DOMAIN contexts = {}

\* The odds block parseVegasForCompetition reads for event i.
OddsOf(i) ==
  IF scoreboard.events[i].competitions[1].obj.odds # <<>>
  THEN scoreboard.events[i].competitions[1].obj.odds[1]
  ELSE EmptyOdds

\* The spread magnitude the odds of event i yield, from the details string or
\* from the numeric spread field.
SpreadMagnitude(i) == MathAbs(DetailSpread(OddsOf(i), DetailTokens(OddsOf(i))))

\* The favored token of event i names the away team.
AwayFavored(i) ==
  /\ FavoredToken(DetailTokens(OddsOf(i))).t = "str"
  /\ FavoredToken(DetailTokens(OddsOf(i))) # parsed[i].home.abbr
  /\ FavoredToken(DetailTokens(OddsOf(i))) = parsed[i].away.abbr

\* The spread of the home side when the magnitude is m: +m when the token names
\* the away team, -m when it names the home team, neither team, or is absent.
SignedHomeSpread(i) ==
  IF AwayFavored(i) THEN SpreadMagnitude(i) ELSE Neg(SpreadMagnitude(i))

\* C21: for every parsed game whose odds yield a non-zero spread magnitude m,
\* the home spread is -m and the away spread +m when the favored token names
\* the home team, names neither team or is absent, the away spread is -m and
\* the home spread +m when it names the away team, and the implied totals are
\* total / 2 minus and plus half of that signed home spread.
C21_FavoredSideGetsNegativeSpread ==
  built =>
    \A i \in 1..Len(parsed) :
      (~parsed[i].isNull /\ SpreadMagnitude(i).n # 0) =>
        /\ parsed[i].home.spread = ToFixed1(SignedHomeSpread(i))
        /\ parsed[i].away.spread = ToFixed1(Neg(SignedHomeSpread(i)))
        /\ parsed[i].home.implied =
             FixedOrNull(Sub(Div(parsed[i].total, Whole(2)),
                             Div(SignedHomeSpread(i), Whole(2))))
        /\ parsed[i].away.implied =
             FixedOrNull(Add(Div(parsed[i].total, Whole(2)),
                             Div(SignedHomeSpread(i), Whole(2))))

(***************************************************************************)
(* Freshness-bounded caches: the clock and the requests                    *)
(***************************************************************************)
\* createCache(ttlMs = 5 * 60 * 1000), used by defenseCache
DEFAULT_CACHE_TTL_MS == 300000
\* createCache(2 * 60 * 1000), the scoreboardCache of index.js
INDEX_SCOREBOARD_TTL_MS == 120000
WEATHER_TTL_MS == 1800000
SCOREBOARD_TTL_MS == 300000

\* One run exercises one cache: the caches are separate objects (and the
\* createCache instances and the weather/scoreboard caches belong to two
\* different builds of the server), so their requests do not interact.
Targets == {"defenseCache", "indexScoreboardCache", "weatherCache", "scoreboardCache"}

TtlOf(tg) ==
  CASE tg = "defenseCache" -> DEFAULT_CACHE_TTL_MS
    [] tg = "indexScoreboardCache" -> INDEX_SCOREBOARD_TTL_MS
    [] tg = "weatherCache" -> WEATHER_TTL_MS
    [] OTHER -> SCOREBOARD_TTL_MS

\* The clock is read at multiples of a fraction of the TTL of the cache.
TicksPerTtl == 2
MaxTicks == 3
MaxReq == 2
\* getUpcomingScoreboardDate() changes after this many clock steps.
DateSpanTicks == 3

Reqs == 1..MaxReq
ClockStep(tg) == TtlOf(tg) \div TicksPerTtl

NoOut == [status |-> 0, body |-> JsNull, cause |-> "none"]

\* What the cache held when a call found it expired (or cold).
Stale(present, value) == [present |-> present, value |-> value]
NoStale == Stale(FALSE, JsNull)

\* A request that has not called anything yet.
IdleReq ==
  [pc |-> "idle", team |-> <<>>, targetDate |-> 0, fresh |-> FALSE, loaded |-> FALSE,
   overlap |-> FALSE, stale |-> NoStale, out |-> NoOut]

\* A call that found what it needed in the cache and has answered.
Answered(team, isFresh, status, body) ==
  [pc |-> "done", team |-> team, targetDate |-> 0, fresh |-> isFresh, loaded |-> FALSE,
   overlap |-> FALSE, stale |-> NoStale, out |-> [status |-> status, body |-> body, cause |-> "none"]]

\* A call that has invoked its loader and awaits it.
Loading(team, targetDate, isFresh, overlaps, stale) ==
  [pc |-> "loading", team |-> team, targetDate |-> targetDate, fresh |-> isFresh,
   loaded |-> TRUE, overlap |-> overlaps, stale |-> stale, out |-> NoOut]

\* The handler's answer once its load has completed or thrown.
Finished(q, status, body, cause) ==
  [q EXCEPT !.pc = "done", !.out = [status |-> status, body |-> body, cause |-> cause]]

OthersLoading(r) == \E o \in Reqs \ {r} : req[o].pc = "loading"

NoLoad == [some |-> FALSE, value |-> JsNull, at |-> 0]
LoadedAt(v, t) == [some |-> TRUE, value |-> v, at |-> t]

Tick ==
  /\ now < MaxTicks * ClockStep(target)
  /\ now' = now + ClockStep(target)
  /\ UNCHANGED <<target, icache, weatherCache, scoreboardCache, req, lastOk>>
  /\ UNCHANGED outsideCache

(***************************************************************************)
(* createCache and its two routes (server/index.js)                        *)
(***************************************************************************)
EmptyIndexCache == [value |-> JsNull, expiresAt |-> 0]

\* What the upstream JSON body can be: null, or an object in which the
\* requested team has an event (A) or has none (B).
IndexPayloads ==
  { JsNull,
    JsObj([id |-> "A", hasEvent |-> TRUE]),
    JsObj([id |-> "B", hasEvent |-> FALSE]) }

\* if (value && expiresAt > Date.now()) return value
IndexFresh(entry, t) == Truthy(entry.value) /\ entry.expiresAt > t

\* A store that would leave a live entry alone (get has no such test).
IndexStoreUnlessFresh(entry, v, t, ttl) ==
  IF IndexFresh(entry, t) THEN entry ELSE [value |-> v, expiresAt |-> t + ttl]

\* value = await loader(); expiresAt = Date.now() + ttlMs
IndexStore(entry, v, t, ttl) == [value |-> v, expiresAt |-> t + ttl]

\* reset()
IndexReset == EmptyIndexCache

\* get(loader), up to the await: answer from the cache or invoke the loader.
IndexGet(r, status) ==
  IF IndexFresh(icache, now)
  THEN req' = [req EXCEPT ![r] = Answered(<<>>, TRUE, status, icache.value)]
  ELSE req' = [req EXCEPT ![r] = Loading(<<>>, 0, icache.expiresAt > now,
                                         OthersLoading(r),
                                         Stale(Truthy(icache.value), icache.value))]

\* GET /api/defense-rankings, up to the await of defenseCache.get
DefenseRankingsBegin(r) ==
  /\ target = "defenseCache"
  /\ req[r].pc = "idle"
  /\ IndexGet(r, 200)
  /\ UNCHANGED <<target, now, icache, weatherCache, scoreboardCache, lastOk>>
  /\ UNCHANGED outsideCache

\* The loader resolved with v: get stores and returns it, the route sends it.
DefenseRankingsLoaded(r, v) ==
  /\ target = "defenseCache"
  /\ req[r].pc = "loading"
  /\ icache' = IndexStore(icache, v, now, TtlOf(target))
  /\ lastOk' = LoadedAt(v, now)
  /\ req' = [req EXCEPT ![r] = Finished(req[r], 200, v, "none")]
  /\ UNCHANGED <<target, now, weatherCache, scoreboardCache>>
  /\ UNCHANGED outsideCache

\* The loader threw: get rejects before assigning, the route answers 500.
DefenseRankingsFailed(r) ==
  /\ target = "defenseCache"
  /\ req[r].pc = "loading"
  /\ req' = [req EXCEPT ![r] = Finished(req[r], 500, JsNull, "loader")]
  /\ UNCHANGED <<target, now, icache, weatherCache, scoreboardCache, lastOk>>
  /\ UNCHANGED outsideCache

\* Lines 106-121 of GET /api/vegas-implied/:team on a truthy scoreboard (the
\* events of the payloads carry the odds extractImpliedTotal needs).
ImpliedStatus(sb) == IF sb.obj.hasEvent THEN 200 ELSE 404

\* GET /api/vegas-implied/:team, up to the await of loadScoreboard()
VegasImpliedBegin(r) ==
  /\ target = "indexScoreboardCache"
  /\ req[r].pc = "idle"
  /\ IndexGet(r, IF Truthy(icache.value) THEN ImpliedStatus(icache.value) ELSE 0)
  /\ UNCHANGED <<target, now, icache, weatherCache, scoreboardCache, lastOk>>
  /\ UNCHANGED outsideCache

\* The loader resolved with a scoreboard object: it is stored and answered from.
VegasImpliedLoaded(r, v) ==
  /\ target = "indexScoreboardCache"
  /\ req[r].pc = "loading"
  /\ Truthy(v)
  /\ icache' = IndexStore(icache, v, now, TtlOf(target))
  /\ lastOk' = LoadedAt(v, now)
  /\ req' = [req EXCEPT ![r] = Finished(req[r], ImpliedStatus(v), v, "none")]
  /\ UNCHANGED <<target, now, weatherCache, scoreboardCache>>
  /\ UNCHANGED outsideCache

\* The loader resolved with null: get stores it, scoreboard.events throws in
\* the route, and the catch block resets the cache.
VegasImpliedLoadedNull(r) ==
  /\ target = "indexScoreboardCache"
  /\ req[r].pc = "loading"
  /\ icache' = IndexReset
  /\ lastOk' = NoLoad
  /\ req' = [req EXCEPT ![r] = Finished(req[r], 500, JsNull, "handler")]
  /\ UNCHANGED <<target, now, weatherCache, scoreboardCache>>
  /\ UNCHANGED outsideCache

\* The loader threw: the catch block of the route resets the cache.
VegasImpliedFailed(r) ==
  /\ target = "indexScoreboardCache"
  /\ req[r].pc = "loading"
  /\ icache' = IndexReset
  /\ lastOk' = NoLoad
  /\ req' = [req EXCEPT ![r] = Finished(req[r], 500, JsNull, "loader")]
  /\ UNCHANGED <<target, now, weatherCache, scoreboardCache>>
  /\ UNCHANGED outsideCache

(***************************************************************************)
(* lookupWeather and GET /api/weather                                      *)
(***************************************************************************)
\* The teams of data/stadiums.json (the file is not part of the sources; any
\* team with an entry behaves alike).
StadiumTeams == {KC, DAL, BUF}

\* The team query parameters of the requests.
WeatherTeams == {KC, <<"d", "a", "l">>, <<"X", "X">>}

NoWeather == [t |-> "undef"]

\* The hourly series of the forecast: the values at hours 12 and 0.
Forecast(temp12, temp0, rain12, rain0) ==
  [temp12 |-> temp12, temp0 |-> temp0, rain12 |-> rain12, rain0 |-> rain0]

Forecasts ==
  { Forecast(JsNum(Whole(20)), JsNum(Whole(15)), JsNum(Whole(55)), JsNum(Whole(10))),
    Forecast(JsUndef, JsNum(Frac(-7, 2)), JsUndef, JsNum(Frac(161, 2))),
    Forecast(JsNum(Whole(20)), JsNum(Whole(15)), JsUndef, JsNull) }

\* Math.round
MathRound(x) == (2 * x.n + x.d) \div (2 * x.d)

\* typeof series[12] === "number" ? series[12] : typeof series[0] === "number" ? series[0] : null
PickHour(h12, h0) == IF h12.t = "num" THEN h12 ELSE IF h0.t = "num" THEN h0 ELSE JsNull

\* `${tempF}F / ${Math.round(rain)}% rain`, kept as its two numbers.
WeatherSummary(tempC, rain) ==
  [t |-> "summary",
   tempF |-> MathRound(Add(Div(Mul(tempC, Whole(9)), Whole(5)), Whole(32))),
   rain |-> MathRound(rain)]

\* cached && cached.expiresAt > Date.now()
WeatherFresh(cache, team, t) == team \in DOMAIN cache /\ cache[team].expiresAt > t

CachedWeather(cache, team) == IF team \in DOMAIN cache THEN cache[team].value ELSE NoWeather

\* weatherCache.set(team, { value: summary, expiresAt: Date.now() + WEATHER_TTL_MS })
WeatherStore(cache, team, summary, t) ==
  (team :> [value |-> summary, expiresAt |-> t + WEATHER_TTL_MS]) @@ cache

\* GET /api/weather with an unknown team: 404 before any lookup.
WeatherUnknownTeam(r, team) ==
  /\ target = "weatherCache"
  /\ req[r].pc = "idle"
  /\ ToUpperCase(team) \notin StadiumTeams
  /\ req' = [req EXCEPT ![r] = Answered(ToUpperCase(team), FALSE, 404, JsNull)]
  /\ UNCHANGED <<target, now, icache, weatherCache, scoreboardCache, lastOk>>
  /\ UNCHANGED outsideCache

\* GET /api/weather: lookupWeather answers from a live entry.
WeatherHit(r, team) ==
  /\ target = "weatherCache"
  /\ req[r].pc = "idle"
  /\ ToUpperCase(team) \in StadiumTeams
  /\ WeatherFresh(weatherCache, ToUpperCase(team), now)
  /\ req' = [req EXCEPT ![r] = Answered(ToUpperCase(team), TRUE, 200,
                                        weatherCache[ToUpperCase(team)].value)]
  /\ UNCHANGED <<target, now, icache, weatherCache, scoreboardCache, lastOk>>
  /\ UNCHANGED outsideCache

\* GET /api/weather: lookupWeather finds no live entry and fetches the forecast.
WeatherFetch(r, team) ==
  /\ target = "weatherCache"
  /\ req[r].pc = "idle"
  /\ ToUpperCase(team) \in StadiumTeams
  /\ ~WeatherFresh(weatherCache, ToUpperCase(team), now)
  /\ req' = [req EXCEPT ![r] = Loading(ToUpperCase(team), 0, FALSE, OthersLoading(r),
                                       Stale(ToUpperCase(team) \in DOMAIN weatherCache,
                                             CachedWeather(weatherCache, ToUpperCase(team))))]
  /\ UNCHANGED <<target, now, icache, weatherCache, scoreboardCache, lastOk>>
  /\ UNCHANGED outsideCache

\* The forecast arrived with a temperature and a rain probability.
WeatherFetched(r, tempC, rain) ==
  /\ target = "weatherCache"
  /\ req[r].pc = "loading"
  /\ tempC.t = "num" /\ rain.t = "num"
  /\ weatherCache' = WeatherStore(weatherCache, req[r].team, WeatherSummary(tempC.num, rain.num), now)
  /\ req' = [req EXCEPT ![r] = Finished(req[r], 200, WeatherSummary(tempC.num, rain.num), "none")]
  /\ UNCHANGED <<target, now, icache, scoreboardCache, lastOk>>
  /\ UNCHANGED outsideCache

\* The forecast arrived without one of them: "Incomplete weather data".
WeatherIncomplete(r, tempC, rain) ==
  /\ target = "weatherCache"
  /\ req[r].pc = "loading"
  /\ tempC.t # "num" \/ rain.t # "num"
  /\ req' = [req EXCEPT ![r] = Finished(req[r], 500, JsNull, "payload")]
  /\ UNCHANGED <<target, now, icache, weatherCache, scoreboardCache, lastOk>>
  /\ UNCHANGED outsideCache

\* fetchJSON threw: lookupWeather rejects and the route answers 500.
WeatherFailed(r) ==
  /\ target = "weatherCache"
  /\ req[r].pc = "loading"
  /\ req' = [req EXCEPT ![r] = Finished(req[r], 500, JsNull, "loader")]
  /\ UNCHANGED <<target, now, icache, weatherCache, scoreboardCache, lastOk>>
  /\ UNCHANGED outsideCache

(***************************************************************************)
(* getScoreboard, computeVegasContext and GET /api/vegas-context           *)
(***************************************************************************)
\* const scoreboardCache = { data: null, expiresAt: 0, dateKey: null, contexts: {} }
\* (matchupNews is derived from contexts and is left out; dateKey null is -1).
EmptyScoreboardCache ==
  [data |-> NullScoreboard, expiresAt |-> 0, dateKey |-> -1, contexts |-> EmptyContexts]

OddsKcMinus3Half ==
  [overUnder |-> JsNum(Whole(41)), details |-> JsStr(<<"K", "C", " ", "-", "3", ".", "5">>), spread |-> JsUndef]

\* The bodies the scoreboard endpoint can answer with.
ScoreboardPayloads ==
  { NullScoreboard,
    [isNull |-> FALSE, events |-> <<>>],
    [isNull |-> FALSE,
     events |-> <<Event(JsObj([competitors |-> <<Competitor("home", JsStr(KC)),
                                                 Competitor("away", JsStr(DAL))>>,
                               odds |-> <<OddsKcMinus3Half>>, date |-> ""]))>>] }

\* The team query parameters of the requests.
ContextTeams == {KC, <<"d", "a", "l">>}

\* getUpcomingScoreboardDate(): the date of the coming Sunday; it moves on
\* once a week, here once every DateSpanTicks clock steps.
getUpcomingScoreboardDate(t) == t \div (DateSpanTicks * ClockStep("scoreboardCache"))

\* scoreboardCache.data && scoreboardCache.expiresAt > Date.now() && scoreboardCache.dateKey === targetDate
ScoreboardFresh(cache, t, targetDate) ==
  /\ ~cache.data.isNull
  /\ cache.expiresAt > t
  /\ cache.dateKey = targetDate

\* Lines 288-291 of getScoreboard
ScoreboardStore(cache, data, t, targetDate) ==
  [data |-> data, expiresAt |-> t + SCOREBOARD_TTL_MS, dateKey |-> targetDate,
   contexts |-> buildTeamContexts(data)]

\* Lines 301-306 of computeVegasContext: the index rebuilt from the scoreboard.
ContextFromRebuilt(ctxs, normalized, rebuilt) ==
  [context |-> IF normalized \in DOMAIN rebuilt THEN JsObj(rebuilt[normalized]) ELSE JsNull,
   contexts |-> IF DOMAIN rebuilt # {} THEN rebuilt ELSE ctxs]

ContextLookup(ctxs, normalized, sb) ==
  IF normalized \in DOMAIN ctxs
  THEN [context |-> JsObj(ctxs[normalized]), contexts |-> ctxs]
  ELSE ContextFromRebuilt(ctxs, normalized, buildTeamContexts(sb))

\* computeVegasContext(teamAbbrev, scoreboard): the context returned and the
\* contexts the cache holds afterwards.
computeVegasContext(ctxs, teamAbbrev, sb) == ContextLookup(ctxs, ToUpperCase(teamAbbrev), sb)

\* Lines 484-488: 404 without a context, the context otherwise.
ContextStatus(found) == IF found.context.t = "null" THEN 404 ELSE 200

\* The route after getScoreboard() returned sb, with the cache as it is then.
ContextRoute(r, q, cache, found) ==
  /\ scoreboardCache' = [cache EXCEPT !.contexts = found.contexts]
  /\ req' = [req EXCEPT ![r] = Finished(q, ContextStatus(found), found.context, "none")]

\* GET /api/vegas-context: getScoreboard answers from the live snapshot.
VegasContextHit(r, team) ==
  /\ target = "scoreboardCache"
  /\ req[r].pc = "idle"
  /\ ScoreboardFresh(scoreboardCache, now, getUpcomingScoreboardDate(now))
  /\ ContextRoute(r, Answered(ToUpperCase(team), TRUE, 0, JsNull), scoreboardCache,
                  computeVegasContext(scoreboardCache.contexts, ToUpperCase(team),
                                      scoreboardCache.data))
  /\ UNCHANGED <<target, now, icache, weatherCache, lastOk>>
  /\ UNCHANGED outsideCache

\* GET /api/vegas-context: getScoreboard finds no live snapshot and fetches one.
VegasContextFetch(r, team) ==
  /\ target = "scoreboardCache"
  /\ req[r].pc = "idle"
  /\ ~ScoreboardFresh(scoreboardCache, now, getUpcomingScoreboardDate(now))
  /\ req' = [req EXCEPT ![r] = Loading(ToUpperCase(team), getUpcomingScoreboardDate(now),
                                       scoreboardCache.expiresAt > now, OthersLoading(r),
                                       Stale(~scoreboardCache.data.isNull, scoreboardCache.data))]
  /\ UNCHANGED <<target, now, icache, weatherCache, scoreboardCache, lastOk>>
  /\ UNCHANGED outsideCache

ScoreboardStored(r, data, cache) ==
  ContextRoute(r, req[r], cache, computeVegasContext(cache.contexts, req[r].team, data))

\* fetchJSON resolved: getScoreboard replaces the snapshot, the route looks
\* the team up in it.
ScoreboardFetched(r, data) ==
  /\ target = "scoreboardCache"
  /\ req[r].pc = "loading"
  /\ ScoreboardStored(r, data, ScoreboardStore(scoreboardCache, data, now, req[r].targetDate))
  /\ lastOk' = LoadedAt(data, now)
  /\ UNCHANGED <<target, now, icache, weatherCache>>
  /\ UNCHANGED outsideCache

\* fetchJSON threw: getScoreboard rejects and the route answers 500.
ScoreboardFailed(r) ==
  /\ target = "scoreboardCache"
  /\ req[r].pc = "loading"
  /\ req' = [req EXCEPT ![r] = Finished(req[r], 500, JsNull, "loader")]
  /\ UNCHANGED <<target, now, icache, weatherCache, scoreboardCache, lastOk>>
  /\ UNCHANGED outsideCache

(***************************************************************************)
(* SpecCache: requests against one cache, with the clock advancing         *)
(***************************************************************************)
CacheIdle ==
  /\ target = "none"
  /\ now = 0
  /\ icache = EmptyIndexCache
  /\ weatherCache = EmptyContexts
  /\ scoreboardCache = EmptyScoreboardCache
  /\ req = [r \in Reqs |-> IdleReq]
  /\ lastOk = NoLoad

NextCache ==
  \/ Tick
  \/ \E r \in Reqs : DefenseRankingsBegin(r)
  \/ \E r \in Reqs, v \in IndexPayloads : DefenseRankingsLoaded(r, v)
  \/ \E r \in Reqs : DefenseRankingsFailed(r)
  \/ \E r \in Reqs : VegasImpliedBegin(r)
  \/ \E r \in Reqs, v \in IndexPayloads : VegasImpliedLoaded(r, v)
  \/ \E r \in Reqs : VegasImpliedLoadedNull(r)
  \/ \E r \in Reqs : VegasImpliedFailed(r)
  \/ \E r \in Reqs, team \in WeatherTeams : WeatherUnknownTeam(r, team)
  \/ \E r \in Reqs, team \in WeatherTeams : WeatherHit(r, team)
  \/ \E r \in Reqs, team \in WeatherTeams : WeatherFetch(r, team)
  \/ \E r \in Reqs, f \in Forecasts :
       WeatherFetched(r, PickHour(f.temp12, f.temp0), PickHour(f.rain12, f.rain0))
  \/ \E r \in Reqs, f \in Forecasts :
       WeatherIncomplete(r, PickHour(f.temp12, f.temp0), PickHour(f.rain12, f.rain0))
  \/ \E r \in Reqs : WeatherFailed(r)
  \/ \E r \in Reqs, team \in ContextTeams : VegasContextHit(r, team)
  \/ \E r \in Reqs, team \in ContextTeams : VegasContextFetch(r, team)
  \/ \E r \in Reqs, data \in ScoreboardPayloads : ScoreboardFetched(r, data)
  \/ \E r \in Reqs : ScoreboardFailed(r)

(***************************************************************************)
(* Properties of the caches                                                *)
(***************************************************************************)
GetCaches == {"defenseCache", "indexScoreboardCache"}

\* The request has gone through the cache lookup of its route.
Called(r) ==
  /\ req[r].pc # "idle"
  /\ target = "weatherCache" => req[r].team \in StadiumTeams

\* C3: for a createCache cache and for the weather cache, a get that falls
\* inside the TTL window opened by a successful load does not invoke the
\* loader, whatever value was loaded, and a get outside any such window
\* invokes it: a call has invoked the loader exactly when it was made with
\* the expiry time not in the future.
C3_LoaderRunsOncePerTtlWindow ==
  target \in GetCaches \cup {"weatherCache"} =>
    \A r \in Reqs : Called(r) => (req[r].loaded <=> ~req[r].fresh)

\* C4: for the createCache cache behind /api/vegas-implied, the step in which
\* a loader failure is handled leaves the cached value and its expiry as
\* they were.
C4_FailedLoadKeepsCachedValue ==
  [][\A r \in Reqs :
       (/\ target = "indexScoreboardCache"
        /\ req[r].pc = "loading"
        /\ req'[r].pc = "done"
        /\ req'[r].out.cause = "loader") => icache' = icache]_vars

\* C5: a weather or vegas-context request that found an expired value in the
\* cache and whose upstream fetch failed is answered without an error, and
\* a weather request is answered with the stale value itself.
C5_StaleValueServedWhenFetchFails ==
  target \in {"weatherCache", "scoreboardCache"} =>
    \A r \in Reqs :
      (/\ req[r].pc = "done"
       /\ req[r].out.cause = "loader"
       /\ req[r].stale.present
       /\ ~req[r].fresh) =>
        /\ req[r].out.status # 500
        /\ target = "weatherCache" => req[r].out.body = req[r].stale.value

\* What the last successful load left in the cache of the run.
LastStored ==
  IF target \in GetCaches
  THEN icache = [value |-> lastOk.value, expiresAt |-> lastOk.at + TtlOf(target)]
  ELSE /\ scoreboardCache.data = lastOk.value
       /\ scoreboardCache.expiresAt = lastOk.at + SCOREBOARD_TTL_MS

DEFAULT_DEFENSE_RANK == 16

\* DEFAULT_WEIGHTS = { QB: 0.2, RB: 0.4, WR: 0.3, TE: 0.1 }
DEFAULT_WEIGHTS == [QB |-> Frac(1, 5), RB |-> Frac(2, 5), WR |-> Frac(3, 10), TE |-> Frac(1, 10)]

POSITION_KEYS == <<"QB", "RB", "WR", "TE">>

TEAM_KEYS ==
  << <<"t", "e", "a", "m", "A", "b", "b", "r">>,
     <<"t", "e", "a", "m", "_", "a", "b", "b", "r">>, <<"t", "e", "a", "m">>,
     <<"a", "b", "b", "r">>,
     <<"t", "e", "a", "m", "A", "b", "b", "r", "e", "v", "i", "a", "t", "i", "o", "n">>,
     <<"t", "e", "a", "m", "_", "a", "b", "b", "r", "e", "v", "i", "a", "t", "i", "o", "n">>,
     <<"t", "e", "a", "m", "A", "b", "b", "r", "e", "v">>,
     <<"t", "e", "a", "m", "_", "a", "b", "b", "r", "e", "v">>,
     <<"t", "e", "a", "m", "S", "h", "o", "r", "t">>,
     <<"s", "h", "o", "r", "t", "N", "a", "m", "e">> >>

\* The aliases probed inside the object found under a team alias.
NESTED_DIRECT_KEYS ==
  << <<"a", "b", "b", "r">>,
     <<"a", "b", "b", "r", "e", "v", "i", "a", "t", "i", "o", "n">>,
     <<"t", "e", "a", "m">>, <<"t", "e", "a", "m", "A", "b", "b", "r">>,
     <<"t", "e", "a", "m", "_", "a", "b", "b", "r">> >>

\* The aliases probed inside item.team.
NESTED_TEAM_KEYS ==
  << <<"a", "b", "b", "r">>,
     <<"a", "b", "b", "r", "e", "v", "i", "a", "t", "i", "o", "n">>,
     <<"t", "e", "a", "m", "A", "b", "b", "r">>,
     <<"t", "e", "a", "m", "_", "a", "b", "b", "r">> >>

RANK_KEYS ==
  [overall |->
     << <<"o", "v", "e", "r", "a", "l", "l">>,
        <<"o", "v", "e", "r", "a", "l", "l", "R", "a", "n", "k">>,
        <<"o", "v", "e", "r", "a", "l", "l", "_", "r", "a", "n", "k">>,
        <<"r", "a", "n", "k">>,
        <<"r", "a", "n", "k", "O", "v", "e", "r", "a", "l", "l">>,
        <<"r", "a", "n", "k", "_", "o", "v", "e", "r", "a", "l", "l">>,
        <<"o", "v", "r">> >>,
   QB |->
     << <<"Q", "B">>, <<"q", "b">>, <<"q", "b", "R", "a", "n", "k">>,
        <<"r", "a", "n", "k", "Q", "B">>, <<"r", "a", "n", "k", "_", "q", "b">> >>,
   RB |->
     << <<"R", "B">>, <<"r", "b">>, <<"r", "b", "R", "a", "n", "k">>,
        <<"r", "a", "n", "k", "R", "B">>, <<"r", "a", "n", "k", "_", "r", "b">> >>,
   WR |->
     << <<"W", "R">>, <<"w", "r">>, <<"w", "r", "R", "a", "n", "k">>,
        <<"r", "a", "n", "k", "W", "R">>, <<"r", "a", "n", "k", "_", "w", "r">> >>,
   TE |->
     << <<"T", "E">>, <<"t", "e">>, <<"t", "e", "R", "a", "n", "k">>,
        <<"r", "a", "n", "k", "T", "E">>, <<"r", "a", "n", "k", "_", "t", "e">> >>]

ARRAY_CANDIDATE_KEYS ==
  << <<"d", "a", "t", "a">>, <<"r", "e", "s", "u", "l", "t", "s">>,
     <<"r", "a", "n", "k", "s">>, <<"r", "a", "n", "k", "i", "n", "g", "s">>,
     <<"l", "i", "s", "t">> >>

\* A JSON array, and one property of a JSON object; an object is the sequence
\* of its properties in insertion order.
JsArr(items) == [t |-> "arr", items |-> items]
Pair(k, v) == [k |-> k, v |-> v]

\* The position of the property named key (0 when the object has none).
KeyIndex(obj, key) ==
  IF \E i \in 1..Len(obj) : obj[i].k = key
  THEN CHOOSE i \in 1..Len(obj) : obj[i].k = key
  ELSE 0

\* lowerMap of pickValue: the last property whose lower-cased name is lower.
LowerIndex(obj, lower) ==
  IF \E i \in 1..Len(obj) : ToLowerCase(obj[i].k) = lower
  THEN CHOOSE i \in 1..Len(obj) :
         /\ ToLowerCase(obj[i].k) = lower
         /\ \A j \in (i + 1)..Len(obj) : ToLowerCase(obj[j].k) # lower
  ELSE 0

ValueAt(obj, i) == IF i > 0 THEN obj[i].v ELSE JsUndef

\* value !== undefined && value !== null && value !== ""
NonEmpty(v) == v.t # "undef" /\ v.t # "null" /\ v # JsStr(<<>>)

FirstNonEmpty(exact, lowered) ==
  IF NonEmpty(exact) THEN exact ELSE IF NonEmpty(lowered) THEN lowered ELSE JsUndef

\* One round of the loop of pickValue.
Probe(obj, key) ==
  FirstNonEmpty(ValueAt(obj, KeyIndex(obj, key)),
                ValueAt(obj, LowerIndex(obj, ToLowerCase(key))))

RECURSIVE PickFrom(_, _, _)
PickNext(found, obj, possibleKeys, i) ==
  IF NonEmpty(found) THEN found ELSE PickFrom(obj, possibleKeys, i + 1)

PickFrom(obj, possibleKeys, i) ==
  IF i > Len(possibleKeys) THEN JsNull
  ELSE PickNext(Probe(obj, possibleKeys[i]), obj, possibleKeys, i)

\* pickValue(obj, possibleKeys) for null and for objects.
pickValue(v, possibleKeys) ==
  IF ~Truthy(v) THEN JsNull ELSE PickFrom(v.obj, possibleKeys, 1)

\* `key in obj` throws a TypeError when obj is a truthy primitive.
PickValueThrows(v) == Truthy(v) /\ v.t # "obj"

\* item?.[key]
Prop(item, key) == IF item.t = "obj" THEN ValueAt(item.obj, KeyIndex(item.obj, key)) ELSE JsUndef

\* typeof v === "string" && v.trim() ? v.trim() : (not a team code)
AsTeam(v) == IF v.t = "str" /\ Trim(v.str) # <<>> THEN JsStr(Trim(v.str)) ELSE JsNull

\* Lines 169-173 of pickTeamAbbr
TeamFromItemTeam(teamField) ==
  IF teamField.t = "obj" THEN AsTeam(pickValue(teamField, NESTED_TEAM_KEYS)) ELSE JsNull

NestedOrItemTeam(nested, item) ==
  IF nested.t = "str" THEN nested ELSE TeamFromItemTeam(Prop(item, <<"t", "e", "a", "m">>))

\* Lines 165-173 of pickTeamAbbr
TeamFromNested(direct, item) ==
  IF direct.t = "obj"
  THEN NestedOrItemTeam(AsTeam(pickValue(direct, NESTED_DIRECT_KEYS)), item)
  ELSE TeamFromItemTeam(Prop(item, <<"t", "e", "a", "m">>))

DirectOrNested(asTeam, direct, item) ==
  IF asTeam.t = "str" THEN asTeam ELSE TeamFromNested(direct, item)

TeamFromDirect(direct, item) == DirectOrNested(AsTeam(direct), direct, item)

pickTeamAbbr(item) == TeamFromDirect(pickValue(item, TEAM_KEYS), item)

\* typeof value === "string" && value.trim() === "" ? NaN : Number(value)
RankNum(value) ==
  IF value.t = "str" /\ Trim(value.str) = <<>> THEN NaN ELSE ToNumber(value)

RECURSIVE RankFrom(_, _, _, _)
RankNext(num, item, rankKeys, i, fallback) ==
  IF IsFinite(num) THEN num ELSE RankFrom(item, rankKeys, i + 1, fallback)

RankFrom(item, rankKeys, i, fallback) ==
  IF i > Len(rankKeys) THEN fallback
  ELSE RankNext(RankNum(Prop(item, rankKeys[i])), item, rankKeys, i, fallback)

pickRankNumber(item, rankKeys, fallback) == RankFrom(item, rankKeys, 1, fallback)

\* parseWeight(value, fallback)
KeepWeight(num, fallback) ==
  IF IsFinite(num) /\ LessEq(Whole(0), num) THEN num ELSE fallback

parseWeight(value, fallback) == KeepWeight(ToNumber(value), fallback)

SumWeights(w) == Add(Add(Add(w.QB, w.RB), w.WR), w.TE)

NormalizeWeights(w, total) ==
  IF LessEq(total, Whole(0)) THEN DEFAULT_WEIGHTS
  ELSE [QB |-> Div(w.QB, total), RB |-> Div(w.RB, total),
        WR |-> Div(w.WR, total), TE |-> Div(w.TE, total)]

EnvWeights(env) ==
  [QB |-> parseWeight(env.QB, DEFAULT_WEIGHTS.QB), RB |-> parseWeight(env.RB, DEFAULT_WEIGHTS.RB),
   WR |-> parseWeight(env.WR, DEFAULT_WEIGHTS.WR), TE |-> parseWeight(env.TE, DEFAULT_WEIGHTS.TE)]

SumAndNormalize(w) == NormalizeWeights(w, SumWeights(w))

\* resolveDefenseWeights() under the DEFENSE_WEIGHT_* variables of env
resolveDefenseWeights(env) == SumAndNormalize(EnvWeights(env))

\* The part of weightedOverall's sum and totalWeight one position adds.
WeightedTerm(value, weight) == IF IsFinite(value) THEN Mul(value, weight) ELSE Whole(0)
CountedWeight(value, weight) == IF IsFinite(value) THEN weight ELSE Whole(0)

OverallOf(sum, totalWeight) ==
  IF Less(Whole(0), totalWeight) THEN Div(sum, totalWeight) ELSE Whole(DEFAULT_DEFENSE_RANK)

\* The unweighted mean of the four ranks (not what weightedOverall computes).
PlainMeanOverall(ranks, w) ==
  Div(Add(Add(Add(ranks.QB, ranks.RB), ranks.WR), ranks.TE), Whole(4))

\* weightedOverall(ranks) with cachedWeights = w
weightedOverall(ranks, w) ==
  OverallOf(Add(Add(Add(WeightedTerm(ranks.QB, w.QB), WeightedTerm(ranks.RB, w.RB)),
                    WeightedTerm(ranks.WR, w.WR)), WeightedTerm(ranks.TE, w.TE)),
            Add(Add(Add(CountedWeight(ranks.QB, w.QB), CountedWeight(ranks.RB, w.RB)),
                    CountedWeight(ranks.WR, w.WR)), CountedWeight(ranks.TE, w.TE)))

\* if (!payload) return []; the array itself; the first array under a
\* candidate key; otherwise [].
RECURSIVE ArrayUnder(_, _)
ArrayUnder(payload, i) ==
  IF i > Len(ARRAY_CANDIDATE_KEYS) THEN <<>>
  ELSE IF Prop(payload, ARRAY_CANDIDATE_KEYS[i]).t = "arr"
       THEN Prop(payload, ARRAY_CANDIDATE_KEYS[i]).items
       ELSE ArrayUnder(payload, i + 1)

coerceArray(payload) ==
  IF ~Truthy(payload) THEN <<>>
  ELSE IF payload.t = "arr" THEN payload.items
  ELSE ArrayUnder(payload, 1)

\* coercePayload(raw) for a payload that is not a string (an already parsed
\* JSON value) returns it.
coercePayload(raw) == raw

\* Lines 197-205 of normalizeDefenseRanks
EntryWith(teamAbbr, ranks, rawOverall, w) ==
  JsObj([teamAbbr |-> ToUpperCase(teamAbbr),
         overall |-> IF IsFinite(rawOverall) THEN rawOverall ELSE weightedOverall(ranks, w),
         QB |-> ranks.QB, RB |-> ranks.RB, WR |-> ranks.WR, TE |-> ranks.TE])

RanksOf(item) ==
  [QB |-> pickRankNumber(item, RANK_KEYS.QB, Whole(DEFAULT_DEFENSE_RANK)),
   RB |-> pickRankNumber(item, RANK_KEYS.RB, Whole(DEFAULT_DEFENSE_RANK)),
   WR |-> pickRankNumber(item, RANK_KEYS.WR, Whole(DEFAULT_DEFENSE_RANK)),
   TE |-> pickRankNumber(item, RANK_KEYS.TE, Whole(DEFAULT_DEFENSE_RANK))]

EntryOrNull(teamAbbr, item, w) ==
  IF teamAbbr.t # "str" THEN JsNull
  ELSE EntryWith(teamAbbr.str, RanksOf(item), pickRankNumber(item, RANK_KEYS.overall, NaN), w)

\* The callback of rows.map in normalizeDefenseRanks
MapItem(item, w) == EntryOrNull(pickTeamAbbr(item), item, w)

\* .filter(Boolean)
RECURSIVE FilterBoolean(_)
FilterBoolean(s) ==
  IF s = <<>> THEN <<>>
  ELSE IF Truthy(Head(s)) THEN <<Head(s).obj>> \o FilterBoolean(Tail(s))
       ELSE FilterBoolean(Tail(s))

\* .sort((a, b) => a.overall - b.overall): stable, ascending by overall.
RECURSIVE InsertByOverall(_, _)
InsertByOverall(sorted, e) ==
  IF sorted = <<>> THEN <<e>>
  ELSE IF Less(e.overall, Head(sorted).overall) THEN <<e>> \o sorted
       ELSE <<Head(sorted)>> \o InsertByOverall(Tail(sorted), e)

RECURSIVE SortByOverall(_, _)
SortByOverall(s, acc) ==
  IF s = <<>> THEN acc ELSE SortByOverall(Tail(s), InsertByOverall(acc, Head(s)))

Returned(entries) == [threw |-> FALSE, entries |-> entries]
Thrown == [threw |-> TRUE, entries |-> <<>>]

MapRows(rows, w) == [i \in 1..Len(rows) |-> MapItem(rows[i], w)]

NormalizeRows(rows, w) ==
  IF \E i \in 1..Len(rows) : PickValueThrows(rows[i]) THEN Thrown
  ELSE Returned(SortByOverall(FilterBoolean(MapRows(rows, w)), <<>>))

\* normalizeDefenseRanks(rawPayload) with cachedWeights = w
normalizeDefenseRanks(raw, w) == NormalizeRows(coerceArray(coercePayload(raw)), w)

(***************************************************************************)
(* Defense-rank payloads                                                   *)
(***************************************************************************)
NoOverride == [QB |-> JsUndef, RB |-> JsUndef, WR |-> JsUndef, TE |-> JsUndef]

\* The DEFENSE_WEIGHT_* settings of the process: unset, or 1, 1, 2 and "".
WeightSettings ==
  { NoOverride,
    [QB |-> JsStr(<<"1">>), RB |-> JsStr(<<"1">>), WR |-> JsStr(<<"2">>), TE |-> JsStr(<<>>)] }

\* How a record names its team.
TeamFields ==
  { <<>>,
    <<Pair(<<"t", "e", "a", "m">>, JsStr(<<"K", "C">>))>>,
    <<Pair(<<"T", "e", "a", "m">>, JsStr(<<" ", "d", "a", "l", " ">>))>>,
    <<Pair(<<"t", "e", "a", "m", "A", "b", "b", "r">>, JsStr(<<" ", " ">>)), Pair(<<"t", "e", "a", "m">>, JsStr(<<"K", "C">>))>>,
    <<Pair(<<"t", "e", "a", "m">>, JsObj(<<Pair(<<"a", "b", "b", "r">>, JsStr(<<"b", "u", "f">>))>>))>>,
    <<Pair(<<"s", "h", "o", "r", "t", "N", "a", "m", "e">>, JsObj(<<Pair(<<"T", "e", "a", "m">>, JsStr(<<"s", "f">>))>>))>>,
    <<Pair(<<"n", "a", "m", "e">>, JsStr(<<"C", "h", "i", "e", "f", "s">>))>> }

FullRanks == <<Pair(<<"Q", "B">>, JsNum(Whole(10))), Pair(<<"R", "B">>, JsNum(Whole(20))), Pair(<<"W", "R">>, JsNum(Whole(5))), Pair(<<"T", "E">>, JsNum(Whole(30)))>>

\* How a record gives its ranks.
RankFields ==
  { <<>>,
    FullRanks,
    <<Pair(<<"Q", "B">>, JsNum(Whole(10)))>>,
    <<Pair(<<"Q", "B">>, JsNum(Whole(10))), Pair(<<"T", "E">>, JsNum(Whole(30)))>>,
    <<Pair(<<"Q", "B">>, JsNull), Pair(<<"R", "B">>, JsNum(Whole(20))), Pair(<<"W", "R">>, JsNum(Whole(5))), Pair(<<"T", "E">>, JsNum(Whole(30)))>>,
    <<Pair(<<"Q", "B">>, JsStr(<<>>)), Pair(<<"R", "B">>, JsStr(<<"7">>)), Pair(<<"W", "R">>, JsStr(<<"a", "b", "c">>)), Pair(<<"T", "E">>, JsStr(<<" ">>))>>,
    FullRanks \o <<Pair(<<"o", "v", "e", "r", "a", "l", "l">>, JsNum(Whole(3)))>>,
    <<Pair(<<"r", "a", "n", "k">>, JsNum(Whole(12))), Pair(<<"q", "b", "R", "a", "n", "k">>, JsNum(Whole(4)))>>,
    <<Pair(<<"Q", "b">>, JsNum(Whole(10))), Pair(<<"T", "E">>, JsNum(Whole(30))),
      Pair(<<"O", "v", "e", "r", "a", "l", "l">>, JsNum(Whole(3)))>> }

TeamKC == <<Pair(<<"t", "e", "a", "m">>, JsStr(<<"K", "C">>))>>

MaxRecords == 2

\* The records of a payload: objects, and values that are not objects.
Records ==
  {JsObj(t \o FullRanks) : t \in TeamFields}
    \cup {JsObj(TeamKC \o r) : r \in RankFields}
    \cup {JsNull, JsNum(Whole(5)), JsStr(<<"K", "C">>)}

RowLists == UNION {[1..n -> Records] : n \in 0..MaxRecords}

\* The raw payloads: an array, an array under a candidate key, and values
\* that hold no array.
RawPayloads ==
  {JsArr(rows) : rows \in RowLists}
    \cup {JsObj(<<Pair(<<"t", "o", "t", "a", "l">>, JsNum(Whole(1))), Pair(<<"r", "e", "s", "u", "l", "t", "s">>, JsArr(<<r>>))>>) : r \in Records}
    \cup {JsNull, JsObj(<<Pair(<<"d", "a", "t", "a">>, JsStr(<<"K", "C">>))>>)}

(***************************************************************************)
(* SpecDefense: one payload is normalized                                  *)
(***************************************************************************)
\* const cachedWeights = resolveDefenseWeights()
cachedWeights == resolveDefenseWeights(defenseEnv)

\* The rows normalizeDefenseRanks maps over.
PayloadRows == coerceArray(coercePayload(rawPayload))

DefenseIdle ==
  /\ defenseEnv = NoOverride
  /\ rawPayload = JsNull
  /\ mapped = <<>>
  /\ normalizedRanks = Returned(<<>>)
  /\ normalizeDone = FALSE

\* normalizeDefenseRanks(rawPayload); mapped keeps what rows.map produced.
NormalizeDefenseRanks ==
  /\ ~normalizeDone
  /\ normalizedRanks' = normalizeDefenseRanks(rawPayload, cachedWeights)
  /\ mapped' = IF normalizedRanks'.threw THEN <<>> ELSE MapRows(PayloadRows, cachedWeights)
  /\ normalizeDone' = TRUE
  /\ UNCHANGED <<defenseEnv, rawPayload>>
  /\ UNCHANGED outsideDefense

NextDefense == NormalizeDefenseRanks

(***************************************************************************)
(* Properties of the normalizer                                            *)
(***************************************************************************)
LowerNames(keyList) == {ToLowerCase(keyList[i]) : i \in 1..Len(keyList)}

NonBlankString(v) == v.t = "str" /\ Trim(v.str) # <<>>

\* Some property of obj whose name is, up to letter case, one of keyList holds
\* a non-blank string.
AliasHoldsString(obj, keyList) ==
  \E i \in 1..Len(obj) :
    ToLowerCase(obj[i].k) \in LowerNames(keyList) /\ NonBlankString(obj[i].v)

\* Some team alias of the record resolves to a non-blank string, directly or
\* one level inside a nested object.
TeamResolvable(item) ==
  /\ item.t = "obj"
  /\ \/ AliasHoldsString(item.obj, TEAM_KEYS)
     \/ \E i \in 1..Len(item.obj) :
          /\ ToLowerCase(item.obj[i].k) \in LowerNames(TEAM_KEYS)
          /\ item.obj[i].v.t = "obj"
          /\ AliasHoldsString(item.obj[i].v.obj, NESTED_DIRECT_KEYS)

\* The record has a property named, up to letter case, like one of keyList.
HasField(item, keyList) ==
  /\ item.t = "obj"
  /\ \E i \in 1..Len(item.obj) : ToLowerCase(item.obj[i].k) \in LowerNames(keyList)

\* The record gives a number under one of the rank keys of the position.
SuppliesRank(item, pos) ==
  /\ item.t = "obj"
  /\ \E i \in 1..Len(item.obj) :
       /\ item.obj[i].k \in {RANK_KEYS[pos][j] : j \in 1..Len(RANK_KEYS[pos])}
       /\ item.obj[i].v.t = "num"
       /\ IsFinite(item.obj[i].v.num)

\* The number given for the position, under the first of its rank keys that
\* holds a number.
SuppliedRank(item, pos) ==
  LET held == {j \in 1..Len(RANK_KEYS[pos]) : Prop(item, RANK_KEYS[pos][j]).t = "num"}
  IN Prop(item, RANK_KEYS[pos][CHOOSE j \in held : \A o \in held : j <= o]).num

Positions == {"QB", "RB", "WR", "TE"}

RECURSIVE SumOver(_, _, _)
\* The sum of f over the positions of ps (weights, or ranks times weights).
SumOver(ps, item, weighted) ==
  IF ps = {} THEN Whole(0)
  ELSE LET p == CHOOSE q \in ps : TRUE
       IN Add(IF weighted THEN Mul(SuppliedRank(item, p), cachedWeights[p]) ELSE cachedWeights[p],
              SumOver(ps \ {p}, item, weighted))

SuppliedPositions(item) == {p \in Positions : SuppliesRank(item, p)}

\* The rows of the normalized payload that were mapped to an entry.
MappedRows == {i \in 1..Len(mapped) : mapped[i].t = "obj"}

\* C7: a record in which no team alias resolves to a non-blank string gets no
\* entry, whatever ranks it carries, and the records of the payload that do
\* name a team are still output: normalizing does not fail, and the output
\* holds the entry of every record for which a team code is found.
C7_TeamlessRecordsDroppedOthersKept ==
  normalizeDone =>
    /\ ~normalizedRanks.threw
    /\ Len(mapped) = Len(PayloadRows)
    /\ \A i \in 1..Len(mapped) :
         /\ ~TeamResolvable(PayloadRows[i]) => mapped[i] = JsNull
         /\ mapped[i].t = "obj" => \E j \in 1..Len(normalizedRanks.entries) :
                                      normalizedRanks.entries[j] = mapped[i].obj

\* C8: a record without an overall field that gives a number for each of the
\* four positions gets overall = QB*wQB + RB*wRB + WR*wWR + TE*wTE with the
\* normalized weights; under the default weights the ranks 10, 20, 5, 30
\* give 14.5.
C8_OverallIsWeightedSum ==
  \A i \in MappedRows :
    (~HasField(PayloadRows[i], RANK_KEYS.overall) /\ SuppliedPositions(PayloadRows[i]) = Positions) =>
      /\ mapped[i].obj.overall = SumOver(Positions, PayloadRows[i], TRUE)
      /\ SumOver(Positions, PayloadRows[i], FALSE) = Whole(1)
      /\ (defenseEnv = NoOverride /\ RanksOf(PayloadRows[i]) =
            [QB |-> Whole(10), RB |-> Whole(20), WR |-> Whole(5), TE |-> Whole(30)]) =>
           mapped[i].obj.overall = Frac(29, 2)

\* A record with the ranks 10, 20, 5, 30 and no overall field was normalized
\* under the default weights and its entry, with overall 14.5, is in the output.
C8_Witness ==
  /\ normalizeDone
  /\ defenseEnv = NoOverride
  /\ \E i \in MappedRows :
       /\ PayloadRows[i] = JsObj(TeamKC \o FullRanks)
       /\ mapped[i].obj.overall = Frac(29, 2)
       /\ \E j \in 1..Len(normalizedRanks.entries) : normalizedRanks.entries[j] = mapped[i].obj

\* C9: a record without an overall field that gives a number for only some
\* positions gets the weighted mean over those positions,
\* sum(rank * weight) / sum(weight of the supplied positions); a record that
\* gives no positional rank gets 16.
C9_OverallIsMeanOverSuppliedPositions ==
  \A i \in MappedRows :
    ~HasField(PayloadRows[i], RANK_KEYS.overall) =>
      IF SuppliedPositions(PayloadRows[i]) = {}
      THEN mapped[i].obj.overall = Whole(DEFAULT_DEFENSE_RANK)
      ELSE Less(Whole(0), SumOver(SuppliedPositions(PayloadRows[i]), PayloadRows[i], FALSE)) =>
             mapped[i].obj.overall =
               Div(SumOver(SuppliedPositions(PayloadRows[i]), PayloadRows[i], TRUE),
                   SumOver(SuppliedPositions(PayloadRows[i]), PayloadRows[i], FALSE))

\* The value is missing, null, an empty string or a string that is no number.
NoRankValue(v) ==
  \/ v.t = "undef"
  \/ v.t = "null"
  \/ v.t = "str" /\ ~IsFinite(StringToNumber(Trim(v.str)))
  \/ v = JsStr(<<>>)

\* C10: when a record has no value under any rank key of a position, or the
\* value there is null, an empty string or a non-numeric string, the rank of
\* the position in its entry is 16.
C10_MissingRankDefaultsTo16 ==
  \A i \in MappedRows : \A p \in Positions :
    (\A j \in 1..Len(RANK_KEYS[p]) : NoRankValue(Prop(PayloadRows[i], RANK_KEYS[p][j]))) =>
      mapped[i].obj[p] = Whole(DEFAULT_DEFENSE_RANK)

\* The properties of the record whose name is, up to letter case, one of the
\* aliases of keyList.
AliasFields(item, keyList) ==
  {f \in 1..Len(item.obj) : ToLowerCase(item.obj[f].k) \in LowerNames(keyList)}

\* The record gives the rank named by slot ("QB", ..., "overall") under exactly
\* one property, whose name matches an alias up to letter case and whose value
\* is a finite number.
OnlyAliasHoldsNumber(item, slot, f) ==
  /\ AliasFields(item, RANK_KEYS[slot]) = {f}
  /\ item.obj[f].v.t = "num"
  /\ IsFinite(item.obj[f].v.num)

\* C26: a rank given under a key that matches a listed alias up to letter case
\* is the rank of the entry, as it is for the exactly-cased key: when one
\* property of a record matches the aliases of a position (or of the overall
\* rank) and holds a finite number, the entry carries that number there.
C26_RankAliasesIgnoreCase ==
  \A i \in MappedRows :
    \A slot \in Positions \cup {"overall"} :
      \A f \in AliasFields(PayloadRows[i], RANK_KEYS[slot]) :
        OnlyAliasHoldsNumber(PayloadRows[i], slot, f) =>
          mapped[i].obj[slot] = PayloadRows[i].obj[f].v.num

(***************************************************************************)
(* SpecWeights: resolveDefenseWeights under every kind of override         *)
(***************************************************************************)
\* One DEFENSE_WEIGHT_* variable: unset, not a number, negative, zero, or
\* positive.
OverrideValues ==
  { JsUndef, JsStr(<<"a", "b", "c">>), JsStr(<<"-", "1">>), JsStr(<<"0">>), JsStr(<<"1">>), JsStr(<<"3">>) }

AllWeightSettings == [{"QB", "RB", "WR", "TE"} -> OverrideValues]

Unresolved == [done |-> FALSE, weights |-> DEFAULT_WEIGHTS]

WeightsIdle ==
  /\ weightEnv = NoOverride
  /\ resolved = Unresolved

\* const cachedWeights = resolveDefenseWeights(), run once at module load.
ResolveWeights ==
  /\ ~resolved.done
  /\ resolved' = [done |-> TRUE, weights |-> resolveDefenseWeights(weightEnv)]
  /\ UNCHANGED weightEnv
  /\ UNCHANGED outsideWeights

NextWeights == ResolveWeights

\* The override is set to zero, or is set to something that is not a finite
\* non-negative number.
ZeroOverride(v) == v.t = "str" /\ ToNumber(v) = Whole(0)
InvalidOverride(v) == v.t = "str" /\ (~IsFinite(ToNumber(v)) \/ Less(ToNumber(v), Whole(0)))

\* C11: whatever the four overrides are, the resolved weights are all
\* non-negative and sum to 1, and when each override is either zero or
\* invalid the resolved weights are the default split 0.2, 0.4, 0.3, 0.1.
C11_WeightsNormalizedOrDefault ==
  resolved.done =>
    /\ \A p \in Positions : LessEq(Whole(0), resolved.weights[p])
    /\ SumWeights(resolved.weights) = Whole(1)
    /\ (\A p \in Positions : ZeroOverride(weightEnv[p]) \/ InvalidOverride(weightEnv[p])) =>
         resolved.weights = DEFAULT_WEIGHTS

(***************************************************************************)
(* SpecCsv: splitCsvLine (server/logic/defense-ranks.js)                   *)
(***************************************************************************)
Quote == "\""
Comma == ","

\* The loop of a splitter that takes every quote as a delimiter.
RECURSIVE CsvScanNoEscape(_, _, _, _, _)
CsvScanNoEscape(line, i, current, inQuotes, result) ==
  IF i > Len(line) THEN Append(result, Trim(current))
  ELSE IF line[i] = Quote
       THEN CsvScanNoEscape(line, i + 1, current, ~inQuotes, result)
  ELSE IF line[i] = Comma /\ ~inQuotes
       THEN CsvScanNoEscape(line, i + 1, <<>>, inQuotes, Append(result, Trim(current)))
  ELSE CsvScanNoEscape(line, i + 1, Append(current, line[i]), inQuotes, result)

SplitCsvLineNoEscape(line) == CsvScanNoEscape(line, 1, <<>>, FALSE, <<>>)

\* The for loop of splitCsvLine and the final push.
RECURSIVE CsvScan(_, _, _, _, _)
CsvScan(line, i, current, inQuotes, result) ==
  IF i > Len(line) THEN Append(result, Trim(current))
  ELSE IF line[i] = Quote
       THEN IF inQuotes /\ i + 1 <= Len(line) /\ line[i + 1] = Quote
            THEN CsvScan(line, i + 2, Append(current, Quote), inQuotes, result)
            ELSE CsvScan(line, i + 1, current, ~inQuotes, result)
  ELSE IF line[i] = Comma /\ ~inQuotes
       THEN CsvScan(line, i + 1, <<>>, inQuotes, Append(result, Trim(current)))
  ELSE CsvScan(line, i + 1, Append(current, line[i]), inQuotes, result)

splitCsvLine(line) == CsvScan(line, 1, <<>>, FALSE, <<>>)

MaxLineLen == 4
MaxFieldLen == 2
MaxFields == 2

\* Raw rows: every string of letters, commas, quotes and spaces.
RawLines == UNION {[1..n -> {"a", Comma, Quote, " "}] : n \in 0..MaxLineLen}

\* Field values to be written as quoted fields.
FieldValues == UNION {[1..n -> {"a", Comma, Quote}] : n \in 0..MaxFieldLen}
FieldLists == UNION {[1..n -> FieldValues] : n \in 1..MaxFields}

\* A value written as a quoted CSV field: quotes doubled, wrapped in quotes.
RECURSIVE DoubleQuotes(_)
DoubleQuotes(f) ==
  IF f = <<>> THEN <<>>
  ELSE (IF Head(f) = Quote THEN <<Quote, Quote>> ELSE <<Head(f)>>) \o DoubleQuotes(Tail(f))

QuotedField(f) == <<Quote>> \o DoubleQuotes(f) \o <<Quote>>

RECURSIVE WriteRow(_)
WriteRow(fields) ==
  IF Len(fields) = 1 THEN QuotedField(fields[1])
  ELSE QuotedField(fields[1]) \o <<Comma>> \o WriteRow(Tail(fields))

NotSplit == [done |-> FALSE, fields |-> <<>>]

CsvIdle ==
  /\ csvSource = <<>>
  /\ csvLine = <<>>
  /\ csvFields = NotSplit

SplitCsvLine ==
  /\ ~csvFields.done
  /\ csvFields' = [done |-> TRUE, fields |-> splitCsvLine(csvLine)]
  /\ UNCHANGED <<csvSource, csvLine>>
  /\ UNCHANGED outsideCsv

NextCsv == SplitCsvLine

\* The commas of the line that have an even number of quote characters
\* before them.
UnquotedCommas(line) ==
  {i \in 1..Len(line) :
     /\ line[i] = Comma
     /\ Cardinality({j \in 1..(i - 1) : line[j] = Quote}) % 2 = 0}

\* C12: a row yields (number of commas outside quotes + 1) fields, and a row
\* written from field values as quoted fields, with embedded commas kept and
\* embedded quotes doubled, is split back into exactly those values.
C12_CsvRowSplitsIntoItsFields ==
  csvFields.done =>
    /\ Len(csvFields.fields) = Cardinality(UnquotedCommas(csvLine)) + 1
    /\ csvSource # <<>> => csvFields.fields = csvSource

\* A row written from a value holding a comma and a quote, and a second
\* value, was split back into the two values.
C12_Witness ==
  /\ csvFields.done
  /\ csvSource = <<<<Comma, Quote>>, <<"a">>>>
  /\ csvLine = <<Quote, Comma, Quote, Quote, Quote, Comma, Quote, "a", Quote>>
  /\ csvFields.fields = csvSource

(***************************************************************************)
(* Player matcher: getSleeperPlayers entries, rankPlayerMatches,           *)
(* pickBestPlayerMatch and the two routes that call them                   *)
(***************************************************************************)
\* String.prototype.startsWith / includes
StartsWith(s, p) == Len(p) <= Len(s) /\ SubSeq(s, 1, Len(p)) = p
Includes(s, p) == \E i \in 0..(Len(s) - Len(p)) : SubSeq(s, i + 1, i + Len(p)) = p

\* The entry getSleeperPlayers keeps for a player (team and position left out).
TrimmedPlayer(id, player) ==
  [id |-> id,
   fullName |-> player.full_name,
   searchKey |-> ToLowerCase(player.full_name),
   lastNameKey |-> ToLowerCase(player.last_name)]

\* sleeperCache.data for the raw players, in Object.entries order.
SleeperList(raw) == [i \in 1..Len(raw) |-> TrimmedPlayer(i, raw[i])]

\* The scoring without the last-name tier.
MatchScoreNoLastName(player, needle, parts) ==
  IF player.searchKey = needle THEN 5
  ELSE IF StartsWith(player.searchKey, needle) THEN 4
  ELSE IF Includes(player.searchKey, needle) THEN 2
  ELSE IF \E k \in 1..Len(parts) : Includes(player.searchKey, parts[k]) THEN 1
  ELSE 0

\* The body of the map callback of rankPlayerMatches.
MatchScore(player, needle, parts) ==
  IF player.searchKey = needle THEN 5
  ELSE IF StartsWith(player.searchKey, needle) THEN 4
  ELSE IF StartsWith(player.lastNameKey, needle) THEN 3
  ELSE IF Includes(player.searchKey, needle) THEN 2
  ELSE IF \E k \in 1..Len(parts) : Includes(player.searchKey, parts[k]) THEN 1
  ELSE 0

ScoreEntry(player, needle, parts) ==
  [player |-> player, score |-> MatchScore(player, needle, parts)]

\* .filter((entry) => entry.score > 0)
PositiveScores(entries) == SelectSeq(entries, LAMBDA e : e.score > 0)

\* Where a stable sort puts e in a list sorted by descending score: after the
\* entries whose score is not lower.
RECURSIVE InsertByScore(_, _)
InsertByScore(sorted, e) ==
  IF sorted = <<>> THEN <<e>>
  ELSE IF Head(sorted).score >= e.score
       THEN <<Head(sorted)>> \o InsertByScore(Tail(sorted), e)
       ELSE <<e>> \o sorted

\* .sort((a, b) => b.score - a.score), which is stable
RECURSIVE SortByScore(_, _)
SortByScore(sorted, entries) ==
  IF entries = <<>> THEN sorted
  ELSE SortByScore(InsertByScore(sorted, Head(entries)), Tail(entries))

\* Array.prototype.slice(0, end) for an integer end: a negative end counts
\* from the end of the array.
SliceTo(arr, end) ==
  SubSeq(arr, 1, IF end < 0 THEN (IF Len(arr) + end < 0 THEN 0 ELSE Len(arr) + end)
                 ELSE IF end > Len(arr) THEN Len(arr) ELSE end)

RankNeedle(list, needle, limit) ==
  SliceTo(SortByScore(<<>>, PositiveScores(
            [i \in 1..Len(list) |-> ScoreEntry(list[i], needle, SplitSpaces(needle, <<>>))])),
          limit)

\* rankPlayerMatches(players, query, limit); whitespace is the space character.
rankPlayerMatches(list, query, limit) == RankNeedle(list, ToLowerCase(query), limit)

\* pickBestPlayerMatch(players, query): the best player, or null
PickFirstPlayer(ranked) ==
  IF ranked # <<>> THEN [isNull |-> FALSE, player |-> ranked[1].player]
  ELSE [isNull |-> TRUE]

pickBestPlayerMatch(list, query) == PickFirstPlayer(rankPlayerMatches(list, query, 1))

SEARCH_DEFAULT_LIMIT == 6
SEARCH_MAX_LIMIT == 12

\* Math.min(Number(req.query.limit) || 6, 12), for the whole numbers the
\* model's limit parameters denote
LimitOfNumber(x) ==
  IF ~IsFinite(x) \/ x = Whole(0) THEN SEARCH_DEFAULT_LIMIT
  ELSE IF x.n > SEARCH_MAX_LIMIT THEN SEARCH_MAX_LIMIT ELSE x.n

SearchLimit(param) == LimitOfNumber(ToNumber(param))

(***************************************************************************)
(* SpecSearch: a lookup or a search against a player directory             *)
(***************************************************************************)
RawPlayer(full, last) == [full_name |-> full, last_name |-> last]

Mahomes == <<"M", "a", "h", "o", "m", "e", "s">>
PatrickMahomes == <<"P", "a", "t", "r", "i", "c", "k", " ", "M", "a", "h", "o", "m", "e", "s">>

\* Players as the Sleeper payload lists them; last_name may be missing.
PlayerPool ==
  { RawPlayer(PatrickMahomes, Mahomes),
    RawPlayer(PatrickMahomes, <<>>),
    RawPlayer(<<"M", "a", "h", "o", "m", "e", "s", " ", "J", "r">>, <<"J", "r">>),
    RawPlayer(<<"S", "a", "m", " ", "A", "m", "a", "h", "o", "m", "e", "s">>,
              <<"A", "m", "a", "h", "o", "m", "e", "s">>),
    RawPlayer(<<"P", "a", "t", " ", "H", "o">>, <<"H", "o">>),
    RawPlayer(Mahomes, Mahomes) }

MaxPlayers == 2

RECURSIVE PlayerLists(_)
PlayerLists(n) ==
  IF n = 0 THEN { <<>> }
  ELSE PlayerLists(n - 1)
         \cup { Append(l, p) : l \in { x \in PlayerLists(n - 1) : Len(x) = n - 1 },
                               p \in PlayerPool }

\* A directory in which many players share a last name, each with an initial
\* of its own.
CrowdSize == 14

Initials == <<"A", "B", "C", "D", "E", "F", "G", "H", "I", "J", "K", "L", "N", "O", "R", "T">>

CrowdedDirectory ==
  [i \in 1..CrowdSize |-> RawPlayer(<<Initials[i], " ">> \o Mahomes, Mahomes)]

Directories == PlayerLists(MaxPlayers) \cup {CrowdedDirectory}

\* req.query.query / req.query.name after trim(), never empty
Queries ==
  { <<"m", "a", "h", "o", "m", "e", "s">>,
    Mahomes,
    <<"p", "a", "t">>,
    <<"P", "A", "T", "R", "I", "C", "K", " ", "M", "A", "H", "O", "M", "E", "S">>,
    <<"j", "r", " ", "h", "o">>,
    <<"z", "e", "d">> }

\* req.query.limit
LimitParams ==
  { JsUndef, JsStr(<<"a", "l", "l">>), JsStr(<<"0">>), JsStr(<<"1">>), JsStr(<<"2">>),
    JsStr(<<"-", "1">>), JsStr(<<"2", "0">>) }

NoSearch == [route |-> "none", list |-> <<>>, match |-> [isNull |-> TRUE]]

SearchIdle ==
  /\ players = <<>>
  /\ searchQuery = <<>>
  /\ searchLimit = JsUndef
  /\ searchOut = NoSearch

\* GET /api/player-search: the ranked matches (opponents left out)
PlayerSearch ==
  /\ searchOut.route = "none"
  /\ searchOut' = [route |-> "search",
                   list |-> rankPlayerMatches(SleeperList(players), searchQuery,
                                              SearchLimit(searchLimit)),
                   match |-> [isNull |-> TRUE]]
  /\ UNCHANGED <<players, searchQuery, searchLimit>>
  /\ UNCHANGED outsideSearch

\* GET /api/player-lookup: the best match or null
PlayerLookup ==
  /\ searchOut.route = "none"
  /\ searchOut' = [route |-> "lookup",
                   list |-> <<>>,
                   match |-> pickBestPlayerMatch(SleeperList(players), searchQuery)]
  /\ UNCHANGED <<players, searchQuery, searchLimit>>
  /\ UNCHANGED outsideSearch

NextSearch == PlayerSearch \/ PlayerLookup

\* The tiers of an entry, stated on the names themselves.
NameOf(i) == ToLowerCase(players[i].full_name)
LastNameOf(i) == ToLowerCase(players[i].last_name)
Needle == ToLowerCase(searchQuery)
IsPrefixOf(p, s) == Len(p) <= Len(s) /\ \A k \in 1..Len(p) : s[k] = p[k]
OccursIn(p, s) ==
  \E off \in 0..(Len(s) - Len(p)) : \A k \in 1..Len(p) : s[off + k] = p[k]
\* The maximal runs of non-space characters of the query.
TokenSpans ==
  { ab \in (1..Len(Needle)) \X (1..Len(Needle)) :
      /\ ab[1] <= ab[2]
      /\ \A k \in ab[1]..ab[2] : Needle[k] # " "
      /\ (ab[1] = 1 \/ Needle[ab[1] - 1] = " ")
      /\ (ab[2] = Len(Needle) \/ Needle[ab[2] + 1] = " ") }
QueryTokens == { SubSeq(Needle, ab[1], ab[2]) : ab \in TokenSpans }
TierOf(i) ==
  IF NameOf(i) = Needle THEN 5
  ELSE IF IsPrefixOf(Needle, NameOf(i)) THEN 4
  ELSE IF IsPrefixOf(Needle, LastNameOf(i)) THEN 3
  ELSE IF OccursIn(Needle, NameOf(i)) THEN 2
  ELSE IF \E t \in QueryTokens : OccursIn(t, NameOf(i)) THEN 1
  ELSE 0

Matching == { i \in 1..Len(players) : TierOf(i) > 0 }

\* Entry i comes before entry j in the ranking.
RanksBefore(i, j) == TierOf(i) > TierOf(j) \/ (TierOf(i) = TierOf(j) /\ i < j)

AtMost(limit) == IF limit < 0 THEN 0 ELSE limit

\* C14: the search returns entries of the directory with the score of the
\* first tier each satisfies, none that satisfies no tier, at most `limit` of
\* them, in descending score order with equal scores in directory order, and
\* they are the first of that order.
C14_RankedByFirstTier ==
  searchOut.route = "search" =>
    /\ \A k \in 1..Len(searchOut.list) :
         /\ searchOut.list[k].player.id \in Matching
         /\ searchOut.list[k].score = TierOf(searchOut.list[k].player.id)
    /\ \A k \in 1..(Len(searchOut.list) - 1) :
         RanksBefore(searchOut.list[k].player.id, searchOut.list[k + 1].player.id)
    /\ Len(searchOut.list) <= AtMost(SearchLimit(searchLimit))
    /\ \A i \in Matching :
         \/ \E k \in 1..Len(searchOut.list) : searchOut.list[k].player.id = i
         \/ /\ Len(searchOut.list) = AtMost(SearchLimit(searchLimit))
            /\ \A k \in 1..Len(searchOut.list) : RanksBefore(searchOut.list[k].player.id, i)

\* The directory entries for Patrick Mahomes, last name Mahomes.
MahomesEntries == { i \in 1..Len(players) : players[i] = RawPlayer(PatrickMahomes, Mahomes) }

\* Entry j only contains the query somewhere inside its name.
SubstringOnly(j) ==
  /\ OccursIn(Needle, NameOf(j))
  /\ ~IsPrefixOf(Needle, NameOf(j))
  /\ ~IsPrefixOf(Needle, LastNameOf(j))

\* No entry before or after i starts with the query in its full name, and no
\* entry before i starts with it in its last name.
Unrivalled(i) ==
  \A j \in 1..Len(players) :
    /\ ~IsPrefixOf(Needle, NameOf(j))
    /\ j < i => ~IsPrefixOf(Needle, LastNameOf(j))

PositionOf(i) ==
  IF \E k \in 1..Len(searchOut.list) : searchOut.list[k].player.id = i
  THEN CHOOSE k \in 1..Len(searchOut.list) : searchOut.list[k].player.id = i
  ELSE 0

\* C15 (amended): for the query "mahomes" and at least one candidate asked
\* for, an entry Patrick Mahomes with last name Mahomes scores 3 (last-name
\* prefix) where it is returned, every returned entry that only contains
\* "mahomes" inside its name comes after it, and it is the top candidate of
\* the search and the match of the lookup when no entry's full name starts
\* with the query and no earlier entry's last name does.
C15_MahomesRanksByLastName ==
  (searchOut.route # "none" /\ Needle = ToLowerCase(Mahomes)) =>
    \A i \in MahomesEntries :
      /\ (searchOut.route = "search" /\ SearchLimit(searchLimit) >= 1) =>
           /\ PositionOf(i) > 0 => searchOut.list[PositionOf(i)].score = 3
           /\ \A j \in 1..Len(players) :
                (SubstringOnly(j) /\ PositionOf(j) > 0) =>
                  (PositionOf(i) > 0 /\ PositionOf(i) < PositionOf(j))
           /\ Unrivalled(i) => PositionOf(i) = 1
      /\ (searchOut.route = "lookup" /\ Unrivalled(i)) =>
           (~searchOut.match.isNull /\ searchOut.match.player.id = i)

\* Patrick Mahomes listed after a player whose name contains "mahomes" inside
\* (Sam Amahomes) is returned first with score 3, the other second with 2.
C15_Witness ==
  /\ searchOut.route = "search"
  /\ searchQuery = <<"m", "a", "h", "o", "m", "e", "s">>
  /\ Len(players) >= 2
  /\ SubstringOnly(1)
  /\ 2 \in MahomesEntries
  /\ Len(searchOut.list) >= 2
  /\ searchOut.list[1].player.id = 2
  /\ searchOut.list[1].score = 3
  /\ searchOut.list[2].score = 2

\* C15 as stated: Patrick Mahomes is returned with score 4.
C15_MahomesScoresFour ==
  (searchOut.route = "search" /\ Needle = ToLowerCase(Mahomes)) =>
    \A i \in MahomesEntries :
      PositionOf(i) > 0 => searchOut.list[PositionOf(i)].score = 4

\* C28: whatever the limit parameter and the directory, the search returns at
\* most 12 candidates.
C28_AtMostTwelveCandidates ==
  searchOut.route = "search" => Len(searchOut.list) <= SEARCH_MAX_LIMIT

(***************************************************************************)
(* Composite scoring engine: calcScore of the Home component               *)
(***************************************************************************)
\* Infinity and -Infinity; NaN is the third non-finite number.
Infinity == [n |-> 1, d |-> 0]
NegInfinity == [n |-> -1, d |-> 0]
IsNaN(x) == x.d = 0 /\ x.n = 0

\* a < b on numbers that may be infinite; false when either is NaN.
ExtLess(a, b) ==
  /\ ~IsNaN(a)
  /\ ~IsNaN(b)
  /\ IF a.d = 0 THEN a.n < 0 /\ b # a
     ELSE IF b.d = 0 THEN b.n > 0
     ELSE Less(a, b)

\* Math.max, Math.min of two numbers
MathMax(a, b) == IF IsNaN(a) \/ IsNaN(b) THEN NaN ELSE IF ExtLess(a, b) THEN b ELSE a
MathMin(a, b) == IF IsNaN(a) \/ IsNaN(b) THEN NaN ELSE IF ExtLess(b, a) THEN b ELSE a

\* a + b and a / k (k finite and positive) on numbers that may be infinite
ExtAdd(a, b) ==
  IF a.d # 0 /\ b.d # 0 THEN Add(a, b)
  ELSE IF IsNaN(a) \/ IsNaN(b) THEN NaN
  ELSE IF a.d # 0 THEN b
  ELSE IF b.d # 0 THEN a
  ELSE IF a = b THEN a ELSE NaN
ExtDivBy(a, k) == IF a.d # 0 THEN Div(a, k) ELSE a

\* Without the upper limit.
ClampBelowOnly(value, min, max) == MathMax(value, min)

\* const clamp = (value, min, max) => Math.min(Math.max(value, min), max)
clamp(value, min, max) == MathMin(MathMax(value, min), max)

\* The element of a one-element set: Only({ e(x) : x \in {v} }) is e(v) with v
\* computed once.
Only(S) == CHOOSE x \in S : TRUE

Rule(keywords, bucket, weight, normalize, transform) ==
  [keywords |-> keywords, bucket |-> bucket, weight |-> weight,
   normalize |-> normalize, transform |-> transform]

\* transform "invert" is (val) => 1 - val, "rankShare" is
\* (val) => Math.max(0, 1 - val / 100)
STAT_RULES ==
  <<
    Rule(<<<<"t", "a", "r", "g", "e", "t", "s", " ", "p", "e", "r", " ", "r", "o", "u", "t", "e", " ", "r", "u", "n">>, <<"t", "p", "r", "r">>>>,
         "efficiency", Whole(55), "percent", "none"),
    Rule(<<<<"y", "a", "r", "d", "s", " ", "p", "e", "r", " ", "r", "o", "u", "t", "e", " ", "r", "u", "n">>>>,
         "efficiency", Whole(8), "yards", "none"),
    Rule(<<<<"e", "p", "a", " ", "p", "e", "r", " ", "p", "l", "a", "y">>>>,
         "efficiency", Frac(5, 2), "none", "none"),
    Rule(<<<<"c", "o", "m", "p", "l", "e", "t", "i", "o", "n", " ", "%">>>>,
         "efficiency", Frac(6, 5), "percent", "none"),
    Rule(<<<<"p", "r", "e", "s", "s", "u", "r", "e", " ", "r", "a", "t", "e">>>>,
         "efficiency", Whole(2), "percent", "invert"),
    Rule(<<<<"y", "a", "r", "d", "s", " ", "p", "e", "r", " ", "a", "t", "t", "e", "m", "p", "t">>>>,
         "efficiency", Frac(9, 5), "none", "none"),
    Rule(<<<<"r", "o", "u", "t", "e", "s">>>>,
         "opportunity", Frac(3, 25), "routes", "none"),
    Rule(<<<<"s", "n", "a", "p", " ", "s", "h", "a", "r", "e">>>>,
         "opportunity", Frac(9, 20), "percent", "none"),
    Rule(<<<<"t", "a", "r", "g", "e", "t", "s", " ", "(", "l", "a", "s", "t">>>>,
         "opportunity", Frac(7, 20), "none", "none"),
    Rule(<<<<"c", "a", "t", "c", "h", "a", "b", "l", "e", " ", "t", "a", "r", "g", "e", "t", "s">>>>,
         "efficiency", Frac(1, 4), "none", "none"),
    Rule(<<<<"a", "d", "o", "t">>>>,
         "efficiency", Frac(9, 50), "none", "none"),
    Rule(<<<<"a", "i", "r", " ", "y", "a", "r", "d", "s">>>>,
         "efficiency", Frac(3, 50), "yards", "none"),
    Rule(<<<<"u", "n", "r", "e", "a", "l", "i", "z", "e", "d", " ", "a", "i", "r", " ", "y", "a", "r", "d", "s">>>>,
         "opportunity", Frac(1, 25), "yards", "none"),
    Rule(<<<<"e", "z", " ", "t", "a", "r", "g", "e", "t", "s">>>>,
         "leverage", Frac(9, 10), "none", "none"),
    Rule(<<<<"r", "e", "d", " ", "z", "o", "n", "e">>>>,
         "leverage", Frac(7, 10), "none", "none"),
    Rule(<<<<"3", "r", "d", "/", "4", "t", "h">>>>,
         "leverage", Frac(3, 5), "none", "none"),
    Rule(<<<<"p", "l", "a", "y", "-", "a", "c", "t", "i", "o", "n">>>>,
         "leverage", Frac(1, 2), "none", "none"),
    Rule(<<<<"f", "a", "n", "t", "a", "s", "y", " ", "p", "p", "g">>>>,
         "production", Frac(5, 2), "none", "none"),
    Rule(<<<<"p", "p", "r", " ", "(", "l", "a", "s", "t">>>>,
         "production", Frac(11, 5), "none", "none"),
    Rule(<<<<"p", "p", "r", " ", "r", "a", "n", "k">>>>,
         "production", Whole(18), "none", "rankShare") >>

POSITION_MULTIPLIERS ==
  [QB |-> Frac(27, 25), RB |-> Frac(26, 25), WR |-> Whole(1), TE |-> Frac(23, 25)]

BUCKET_WEIGHTS ==
  [opportunity |-> Whole(28), efficiency |-> Whole(30), leverage |-> Whole(20),
   production |-> Whole(26)]

BUCKET_NORMALIZERS ==
  [opportunity |-> Whole(120), efficiency |-> Whole(140), leverage |-> Whole(80),
   production |-> Whole(110)]

DEFAULT_TEAM_TOTAL == 22
DEFAULT_DEF_RANK == 16

\* normalizeStatValue(value, mode) for a finite value
normalizeStatValue(value, mode) ==
  IF ~IsFinite(value) THEN Whole(0)
  ELSE IF mode = "percent" THEN (IF Less(Whole(1), value) THEN Div(value, Whole(100)) ELSE value)
  ELSE IF mode = "routes" THEN Div(value, Whole(10))
  ELSE IF mode = "yards" THEN Div(value, Whole(10))
  ELSE value

\* rule.transform ? rule.transform(normalized) : normalized
Derived(rule, val) ==
  IF rule.transform = "invert" THEN Sub(Whole(1), val)
  ELSE IF rule.transform = "rankShare"
       THEN MathMax(Whole(0), Sub(Whole(1), Div(val, Whole(100))))
  ELSE val

\* rule.keywords.some((keyword) => lowerKey.includes(keyword))
RuleMatches(rule, lowerKey) ==
  \E k \in 1..Len(rule.keywords) : Includes(lowerKey, rule.keywords[k])

RECURSIVE LastRuleFrom(_, _)
LastRuleFrom(r, lowerKey) ==
  IF r > Len(STAT_RULES) THEN 0
  ELSE Only({ IF later # 0 THEN later
              ELSE IF RuleMatches(STAT_RULES[r], lowerKey) THEN r
              ELSE 0 : later \in {LastRuleFrom(r + 1, lowerKey)} })

\* The rule the for loop stops at, 0 when no rule matches.
RECURSIVE FirstRuleFrom(_, _)
FirstRuleFrom(r, lowerKey) ==
  IF r > Len(STAT_RULES) THEN 0
  ELSE IF RuleMatches(STAT_RULES[r], lowerKey) THEN r
  ELSE FirstRuleFrom(r + 1, lowerKey)

FirstRule(lowerKey) == FirstRuleFrom(1, lowerKey)

\* buckets[rule.bucket] += derived * rule.weight
AddToBucket(buckets, rule, val) ==
  [buckets EXCEPT ![rule.bucket] =
     Add(@, Mul(Derived(rule, normalizeStatValue(val, rule.normalize)), rule.weight))]

ApplyRule(buckets, r, val) ==
  IF r = 0 THEN buckets ELSE AddToBucket(buckets, STAT_RULES[r], val)

\* The forEach callback on one entry [key, rawVal] of p.stats.
AddStat(buckets, key, val) ==
  IF ~IsFinite(val) THEN buckets
  ELSE Only({ ApplyRule(buckets, FirstRule(lowerKey), val) : lowerKey \in {ToLowerCase(key)} })

EmptyBuckets ==
  [opportunity |-> Whole(0), efficiency |-> Whole(0), leverage |-> Whole(0),
   production |-> Whole(0)]

\* Object.entries(st).forEach(...); st is a sequence of <<key, rawVal>>
RECURSIVE FoldStats(_, _)
FoldStats(buckets, st) ==
  IF st = <<>> THEN buckets
  ELSE FoldStats(Only({ AddStat(buckets, Head(st)[1], val) : val \in {ToNumber(Head(st)[2])} }),
                 Tail(st))

\* const st = p.stats || {}
StatBuckets(p) == FoldStats(EmptyBuckets, IF p.hasStats THEN p.stats ELSE <<>>)

BucketShare(buckets, key) ==
  Mul(clamp(Div(buckets[key], BUCKET_NORMALIZERS[key]), Whole(0), Whole(1)),
      BUCKET_WEIGHTS[key])

\* Object.keys(buckets).reduce(...)
BaseScore(buckets) ==
  Add(Add(Add(Add(Whole(0), BucketShare(buckets, "opportunity")),
              BucketShare(buckets, "efficiency")),
          BucketShare(buckets, "leverage")),
      BucketShare(buckets, "production"))

\* score *= POSITION_MULTIPLIERS[p.position] ?? 1
PositionScaled(score, position) ==
  IF position \in DOMAIN POSITION_MULTIPLIERS
  THEN Mul(score, POSITION_MULTIPLIERS[position]) ELSE score

\* The four market adjustments; typeof x === "number" is true of NaN and of
\* the infinities.
WithImplied(score, x) ==
  IF x.t # "num" THEN score
  ELSE Add(score, Mul(clamp(ExtDivBy(ExtAdd(x.num, Whole(-DEFAULT_TEAM_TOTAL)), Whole(14)),
                            Whole(-1), Whole(1)), Whole(8)))

WithOverUnder(score, x) ==
  IF x.t # "num" THEN score
  ELSE Add(score, Mul(clamp(ExtDivBy(ExtAdd(x.num, Whole(-45)), Whole(15)),
                            Whole(-1), Whole(1)), Whole(6)))

WithSpread(score, x) ==
  IF x.t # "num" THEN score
  ELSE Add(score, Mul(clamp(ExtDivBy(Neg(x.num), Whole(10)), Whole(-1), Whole(1)), Whole(5)))

WithDefRank(score, x) ==
  IF x.t # "num" THEN score
  ELSE Add(score, Mul(clamp(ExtDivBy(ExtAdd(Whole(DEFAULT_DEF_RANK), Neg(x.num)), Whole(10)),
                            Whole(-1), Whole(1)), Whole(6)))

\* The characters after the digits starting at i, spaces skipped.
RECURSIVE SkipSpaces(_)
SkipSpaces(s) == IF s # <<>> /\ IsSpace(Head(s)) THEN SkipSpaces(Tail(s)) ELSE s

AfterDigits(s, i) == SkipSpaces(SubSeq(s, i + DigitRun(SubSeq(s, i, Len(s))), Len(s)))

\* /(\d+)\s*%/ matches at position i of s.
RainMatchAt(s, i) ==
  /\ IsDigit(s[i])
  /\ AfterDigits(s, i) # <<>>
  /\ Head(AfterDigits(s, i)) = "%"

\* /(-?\d+)\s*F/i matches at position i of s.
TempMatchAt(s, i) ==
  LET j == IF s[i] = "-" THEN i + 1 ELSE i
  IN  /\ j <= Len(s)
      /\ IsDigit(s[j])
      /\ AfterDigits(s, j) # <<>>
      /\ Head(AfterDigits(s, j)) \in {"F", "f"}

NoMatch == [found |-> FALSE, val |-> 0]

DigitsAt(s, i) == DigitsValue(SubSeq(s, i, i + DigitRun(SubSeq(s, i, Len(s))) - 1), 0)

\* extractRainChance(weather): the first match's number, or null
extractRainChance(weather) ==
  IF weather.t # "str" \/ ~\E i \in 1..Len(weather.str) : RainMatchAt(weather.str, i)
  THEN NoMatch
  ELSE [found |-> TRUE,
        val |-> DigitsAt(weather.str,
                         CHOOSE i \in 1..Len(weather.str) :
                           /\ RainMatchAt(weather.str, i)
                           /\ \A q \in 1..(i - 1) : ~RainMatchAt(weather.str, q))]

SignedDigitsAt(s, i) == IF s[i] = "-" THEN -DigitsAt(s, i + 1) ELSE DigitsAt(s, i)

\* extractTempF(weather)
extractTempF(weather) ==
  IF weather.t # "str" \/ ~\E i \in 1..Len(weather.str) : TempMatchAt(weather.str, i)
  THEN NoMatch
  ELSE [found |-> TRUE,
        val |-> SignedDigitsAt(weather.str,
                               CHOOSE i \in 1..Len(weather.str) :
                                 /\ TempMatchAt(weather.str, i)
                                 /\ \A q \in 1..(i - 1) : ~TempMatchAt(weather.str, q))]

WithRain(score, rain) ==
  IF ~rain.found THEN score
  ELSE Sub(score, Whole(IF rain.val > 70 THEN 6 ELSE IF rain.val > 40 THEN 3 ELSE 0))

WithTemp(score, tempF) ==
  IF ~tempF.found THEN score
  ELSE IF tempF.val < 32 THEN Sub(score, Whole(4))
  ELSE IF tempF.val > 90 THEN Sub(score, Whole(2))
  ELSE score

\* The score before the view-mode step.
ScoreOfBuckets(p, buckets) ==
  WithTemp(
    WithRain(
      WithDefRank(
        WithSpread(
          WithOverUnder(
            WithImplied(PositionScaled(BaseScore(buckets), p.position), p.impliedTotal),
            p.overUnder),
          p.spread),
        p.defRank),
      extractRainChance(p.weather)),
    extractTempF(p.weather))

\* The blend with the production share already normalized by its bucket.
BlendNormalized(score, production, mode) ==
  IF mode = "ROS"
  THEN Add(Mul(score, Frac(4, 5)),
           Mul(clamp(Div(Div(production, BUCKET_NORMALIZERS.production), Whole(80)),
                     Whole(0), Whole(1)), Whole(20)))
  ELSE score

\* if (viewMode === "ROS") score = score * 0.8 + clamp(buckets.production / 80, 0, 1) * 20
Blend(score, production, mode) ==
  IF mode = "ROS"
  THEN Add(Mul(score, Frac(4, 5)),
           Mul(clamp(Div(production, Whole(80)), Whole(0), Whole(1)), Whole(20)))
  ELSE score

\* if (!Number.isFinite(score)) return 0; return Number(clamp(score, 0, 100).toFixed(1))
Finish(score) ==
  IF ~IsFinite(score) THEN Whole(0)
  ELSE ToFixed1(clamp(score, Whole(0), Whole(100)))

\* One call of calcScore with what it computed on the way.
CallRecord(mode, week, buckets) ==
  [mode |-> mode,
   week |-> week,
   buckets |-> buckets,
   production |-> buckets.production,
   score |-> Blend(week, buckets.production, mode),
   out |-> Finish(Blend(week, buckets.production, mode))]

CallOnBuckets(p, buckets, mode) ==
  Only({ CallRecord(mode, week, buckets) : week \in {ScoreOfBuckets(p, buckets)} })

\* calcScore(p) under the view mode the callback was created with
calcScoreCall(p, mode) ==
  Only({ CallOnBuckets(p, buckets, mode) : buckets \in {StatBuckets(p)} })

calcScore(p, mode) == calcScoreCall(p, mode).out

(***************************************************************************)
(* SpecScore: calls of calcScore on one player as the view mode changes    *)
(***************************************************************************)
ZeroStats ==
  <<<<<<"R", "o", "u", "t", "e", "s">>, JsNum(Whole(0))>>, <<<<"F", "a", "n", "t", "a", "s", "y", " ", "P", "P", "G", " ", "(", "L", "a", "s", "t", " ", "3", ")">>, JsNum(Whole(0))>>, <<<<"S", "n", "a", "p", " ", "S", "h", "a", "r", "e">>, JsNum(Whole(0))>>>>

TypicalStats ==
  <<<<<<"R", "o", "u", "t", "e", "s">>, JsNum(Whole(300))>>, <<<<"T", "a", "r", "g", "e", "t", "s", " ", "p", "e", "r", " ", "R", "o", "u", "t", "e", " ", "R", "u", "n", " ", "(", "T", "P", "R", "R", ")">>, JsNum(Whole(28))>>, <<<<"F", "a", "n", "t", "a", "s", "y", " ", "P", "P", "G", " ", "(", "L", "a", "s", "t", " ", "3", ")">>, JsNum(Frac(88, 5))>>, <<<<"P", "P", "R", " ", "R", "a", "n", "k">>, JsNum(Whole(45))>>>>

OddStats ==
  <<<<<<"R", "o", "u", "t", "e", "s">>, JsNum(Whole(-50))>>, <<<<"F", "a", "n", "t", "a", "s", "y", " ", "P", "P", "G", " ", "(", "L", "a", "s", "t", " ", "3", ")">>, JsStr(<<"a", "b", "c">>)>>, <<<<"S", "n", "a", "p", " ", "S", "h", "a", "r", "e">>, JsStr(<<"8", "5">>)>>, <<<<"E", "P", "A", " ", "p", "e", "r", " ", "P", "l", "a", "y">>, JsNum(NaN)>>>>

RankOnlyStats ==
  <<<<<<"P", "P", "R", " ", "R", "a", "n", "k">>, JsNum(Whole(0))>>, <<<<"P", "r", "e", "s", "s", "u", "r", "e", " ", "R", "a", "t", "e">>, JsNum(Whole(30))>>>>

UnknownStats ==
  <<<<<<"A", "g", "e">>, JsNum(Whole(25))>>>>

SaturatedStats ==
  <<<<<<"T", "a", "r", "g", "e", "t", "s", " ", "(", "L", "a", "s", "t", " ", "3", ")">>, JsNum(Whole(400))>>, <<<<"E", "P", "A", " ", "p", "e", "r", " ", "P", "l", "a", "y">>, JsNum(Whole(100))>>, <<<<"E", "Z", " ", "T", "a", "r", "g", "e", "t", "s">>, JsNum(Whole(200))>>, <<<<"F", "a", "n", "t", "a", "s", "y", " ", "P", "P", "G", " ", "(", "L", "a", "s", "t", " ", "3", ")">>, JsNum(Whole(400))>>>>

LowProduction ==
  <<<<<<"P", "P", "R", " ", "(", "L", "a", "s", "t", " ", "3", ")">>, JsNum(Whole(10))>>, <<<<"U", "n", "r", "e", "a", "l", "i", "z", "e", "d", " ", "A", "i", "r", " ", "Y", "a", "r", "d", "s">>, JsNum(Whole(140))>>, <<<<"R", "e", "d", " ", "Z", "o", "n", "e", " ", "T", "o", "u", "c", "h", "e", "s">>, JsNum(Whole(-3))>>>>

OverlapStats ==
  <<<<<<"C", "a", "t", "c", "h", "a", "b", "l", "e", " ", "T", "a", "r", "g", "e", "t", "s", " ", "(", "L", "a", "s", "t", " ", "3", ")">>, JsNum(Whole(5))>>, <<<<"A", "g", "e">>, JsNum(Whole(25))>>, <<<<"R", "o", "u", "t", "e", "s", " ", "(", "L", "a", "s", "t", " ", "3", ")">>, JsNum(NaN)>>, <<<<"R", "e", "d", " ", "Z", "o", "n", "e", " ", "T", "a", "r", "g", "e", "t", "s", " ", "(", "L", "a", "s", "t", " ", "3", ")">>, JsNum(Whole(2))>>>>

\* p.stats: missing, or the entries in insertion order
StatMappings ==
  { [hasStats |-> FALSE, stats |-> <<>>] }
    \cup { [hasStats |-> TRUE, stats |-> s] :
             s \in { <<>>, ZeroStats, TypicalStats, OddStats, RankOnlyStats, UnknownStats, SaturatedStats, LowProduction,
                     OverlapStats } }

Context(impliedTotal, overUnder, spread, defRank) ==
  [impliedTotal |-> impliedTotal, overUnder |-> overUnder, spread |-> spread,
   defRank |-> defRank]

DefaultContext == Context(JsNum(Whole(DEFAULT_TEAM_TOTAL)), JsUndef, JsUndef, JsNum(Whole(DEFAULT_DEF_RANK)))

PlayerContexts ==
  { Context(JsUndef, JsUndef, JsUndef, JsUndef),
    DefaultContext,
    Context(JsNum(Whole(36)), JsNum(Whole(60)), JsNum(Whole(-14)), JsNum(Whole(1))),
    Context(JsNum(Whole(8)), JsNum(Whole(30)), JsNum(Whole(14)), JsNum(Whole(32))),
    Context(JsNum(Frac(51, 2)), JsNum(Frac(95, 2)), JsNum(Frac(-7, 2)), JsNum(Whole(12))),
    Context(JsNum(NaN), JsUndef, JsNum(Whole(0)), JsNull),
    Context(JsNum(Infinity), JsNum(NegInfinity), JsNum(Infinity), JsNum(NegInfinity)) }

Weathers ==
  { JsUndef, JsStr(<<>>), JsStr(<<"7", "2", "F", " ", "8", "0", "%">>), JsStr(<<"2", "0", " ", "f", " ", "5", "0", " ", "%">>), JsStr(<<"-", "5", "F", " ", "1", "0", "%">>), JsStr(<<"9", "5", "F">>), JsStr(<<"r", "a", "i", "n", " ", "4", "5", "%">>) }

Positions4 == { "QB", "TE", "K" }

ScorePlayers ==
  { [position |-> pos, hasStats |-> sm.hasStats, stats |-> sm.stats,
     impliedTotal |-> c.impliedTotal, overUnder |-> c.overUnder, spread |-> c.spread,
     defRank |-> c.defRank, weather |-> wx] :
      pos \in Positions4, sm \in StatMappings, c \in PlayerContexts, wx \in Weathers }

MaxCalls == 2

ScoreIdle ==
  /\ scorePlayer = [position |-> "", hasStats |-> FALSE, stats |-> <<>>,
                    impliedTotal |-> JsUndef, overUnder |-> JsUndef, spread |-> JsUndef,
                    defRank |-> JsUndef, weather |-> JsUndef]
  /\ viewMode = "WEEK"
  /\ scoreCalls = <<>>

\* calcScore(p) from a handler that adds or updates the player
CalcScore ==
  /\ Len(scoreCalls) < MaxCalls
  /\ scoreCalls' = Append(scoreCalls, calcScoreCall(scorePlayer, viewMode))
  /\ UNCHANGED <<scorePlayer, viewMode>>
  /\ UNCHANGED outsideScore

\* setViewMode(mode) and the effect that recomputes the score with the new
\* calcScore
SetViewMode ==
  /\ Len(scoreCalls) < MaxCalls
  /\ \E mode \in {"WEEK", "ROS"} :
       /\ mode # viewMode
       /\ viewMode' = mode
       /\ scoreCalls' = Append(scoreCalls, calcScoreCall(scorePlayer, mode))
  /\ UNCHANGED scorePlayer
  /\ UNCHANGED outsideScore

NextScore == CalcScore \/ SetViewMode


\* All-zero stats under the default context: impliedTotal 22, defRank 16, no
\* over/under, spread or weather.
BaselinePlayer ==
  /\ scorePlayer.hasStats
  /\ scorePlayer.stats = ZeroStats
  /\ Context(scorePlayer.impliedTotal, scorePlayer.overUnder, scorePlayer.spread,
             scorePlayer.defRank) = DefaultContext
  /\ scorePlayer.weather = JsUndef

\* x is a finite number of [0, 100] with at most one decimal place.
BoundedTenth(x) ==
  /\ x.d > 0
  /\ 10 % x.d = 0
  /\ 0 <= x.n
  /\ x.n <= 100 * x.d

\* C16: for every player record and both view modes calcScore returns a
\* finite number in [0, 100] with at most one decimal place, and for all-zero
\* stats under the default context every call returns the same value.
C16_ScoreBoundedOneDecimal ==
  /\ \A k \in 1..Len(scoreCalls) : BoundedTenth(scoreCalls[k].out)
  /\ BaselinePlayer =>
       \A j, k \in 1..Len(scoreCalls) : scoreCalls[j].out = scoreCalls[k].out

\* A call whose score is above 100 before the final clamp (all four buckets
\* saturated) and one on NaN input, both returned within the range.
C16_Witness ==
  /\ Len(scoreCalls) >= 2
  /\ scoreCalls[1].mode # scoreCalls[2].mode
  /\ \/ /\ Less(Whole(100), scoreCalls[1].score)
        /\ scoreCalls[1].out = Whole(100)
     \/ /\ ~IsFinite(scoreCalls[1].score)
        /\ scoreCalls[1].out = Whole(0)

\* The production share of the rest-of-season blend, from the bucket total.
ProductionFloor(production) ==
  IF production.n <= 0 THEN Whole(0)
  ELSE IF production.n >= 80 * production.d THEN Whole(1)
  ELSE Frac(production.n, 80 * production.d)

\* 0.8 * week + 20 * floor
RosBlend(week, floor) ==
  IF ~IsFinite(week) THEN NaN
  ELSE Frac(4 * week.n * floor.d + 100 * floor.n * week.d, 5 * week.d * floor.d)

\* out is x clamped to [0, 100] and rounded to the nearest tenth; 0 for a
\* non-finite x.
ClampedTenthOf(out, x) ==
  IF ~IsFinite(x) THEN out = Whole(0)
  ELSE /\ BoundedTenth(out)
       /\ LessEq(MathAbs(Sub(out, IF x.n < 0 THEN Whole(0)
                                  ELSE IF x.n > 100 * x.d THEN Whole(100)
                                  ELSE x)),
                 Frac(1, 20))

\* C17: a rest-of-season call returns 0.8 times the score the week mode
\* computes for the same player before its final clamp, plus 20 times the
\* production bucket total over 80 clamped to [0, 1], clamped to [0, 100] and
\* rounded to one decimal (0 when not finite); calls in the same mode return
\* the same score whatever calls came before.
C17_RosIsBlendOfWeekAndProduction ==
  \A k \in 1..Len(scoreCalls) :
    /\ scoreCalls[k].mode = "ROS" =>
         /\ ClampedTenthOf(scoreCalls[k].out,
                           RosBlend(scoreCalls[k].week,
                                    ProductionFloor(scoreCalls[k].production)))
         /\ \A j \in 1..Len(scoreCalls) :
              scoreCalls[j].mode = "WEEK" => scoreCalls[j].score = scoreCalls[k].week
    /\ \A j \in 1..Len(scoreCalls) :
         scoreCalls[j].mode = scoreCalls[k].mode => scoreCalls[j].out = scoreCalls[k].out

\* A week call followed by a rest-of-season call on a player whose production
\* total lies strictly between 0 and 80, with different results inside (0, 100).
C17_Witness ==
  /\ Len(scoreCalls) >= 2
  /\ scoreCalls[1].mode = "WEEK"
  /\ scoreCalls[2].mode = "ROS"
  /\ Less(Whole(0), scoreCalls[2].production)
  /\ Less(scoreCalls[2].production, Whole(80))
  /\ Less(Whole(0), scoreCalls[2].out)
  /\ Less(scoreCalls[2].out, Whole(100))
  /\ scoreCalls[1].out # scoreCalls[2].out

\* The stat entries of the player the calls were made on.
StatsOfPlayer == IF scorePlayer.hasStats THEN scorePlayer.stats ELSE <<>>

\* The rules of STAT_RULES with a keyword contained in the lower-cased name of
\* stat entry j.
MatchingRules(j) ==
  UNION { { r \in 1..Len(STAT_RULES) :
              \E k \in 1..Len(STAT_RULES[r].keywords) :
                OccursIn(STAT_RULES[r].keywords[k], lowerKey) } :
          lowerKey \in {ToLowerCase(StatsOfPlayer[j][1])} }

\* The first of them in STAT_RULES order, 0 when there is none.
EarliestRule(j) ==
  Only({ IF M = {} THEN 0 ELSE CHOOSE r \in M : \A q \in M : r <= q :
         M \in {MatchingRules(j)} })

\* Stat entry j has a finite value and at least one matching rule.
Counted(j) ==
  /\ IsFinite(ToNumber(StatsOfPlayer[j][2]))
  /\ MatchingRules(j) # {}

\* The value of entry j normalized, transformed and weighted by rule r.
WeightedBy(r, j) ==
  Mul(Derived(STAT_RULES[r],
              normalizeStatValue(ToNumber(StatsOfPlayer[j][2]), STAT_RULES[r].normalize)),
      STAT_RULES[r].weight)

\* The bucket totals with entry j added: its weighted value under the earliest
\* matching rule goes to that rule's bucket, and nothing is added when no rule
\* matches or the value is not finite.
WithShareOf(totals, j) ==
  Only({ IF r # 0 /\ IsFinite(ToNumber(StatsOfPlayer[j][2]))
         THEN [totals EXCEPT ![STAT_RULES[r].bucket] = Add(@, WeightedBy(r, j))]
         ELSE totals :
         r \in {EarliestRule(j)} })

\* The bucket totals of the first j entries.
RECURSIVE SumOfShares(_)
SumOfShares(j) ==
  IF j = 0 THEN EmptyBuckets
  ELSE Only({ WithShareOf(totals, j) : totals \in {SumOfShares(j - 1)} })

\* C22: after the stat loop of calcScore each bucket holds the sum, over the
\* stat entries with a finite value and a matching rule, of the entry's value
\* normalized, transformed and weighted by the first rule in STAT_RULES order
\* with a keyword contained in the lower-cased stat name, added to that rule's
\* bucket only; entries with no matching rule or a non-finite value add
\* nothing.
C22_FirstMatchingRuleOnly ==
  \A expected \in {SumOfShares(Len(StatsOfPlayer))} :
    \A k \in 1..Len(scoreCalls) :
      \A b \in DOMAIN EmptyBuckets : scoreCalls[k].buckets[b] = expected[b]

\* A call on a player with a stat two rules of different buckets match
\* ("Catchable Targets (Last 3)": "targets (last" before "catchable targets"),
\* a stat no rule matches and a stat whose value is not finite.
C22_Witness ==
  /\ Len(scoreCalls) >= 1
  /\ \E j \in 1..Len(StatsOfPlayer) :
       /\ Counted(j)
       /\ \E r \in {EarliestRule(j)} :
            /\ \E q \in MatchingRules(j) : STAT_RULES[q].bucket # STAT_RULES[r].bucket
            /\ WeightedBy(r, j) # Whole(0)
            /\ scoreCalls[1].buckets[STAT_RULES[r].bucket] # Whole(0)
  /\ \E j \in 1..Len(StatsOfPlayer) :
       IsFinite(ToNumber(StatsOfPlayer[j][2])) /\ MatchingRules(j) = {}
  /\ \E j \in 1..Len(StatsOfPlayer) :
       ~IsFinite(ToNumber(StatsOfPlayer[j][2])) /\ MatchingRules(j) # {}

\* The defense ranks of a 32-team league, 1 the hardest matchup.
DefRanks == 1..(2 * DEFAULT_DEF_RANK)

\* What call k would have returned had the opponent's defense rank been r,
\* every other input of the player and the view mode as they were.
AgainstDefense(k, r) ==
  CallOnBuckets([scorePlayer EXCEPT !.defRank = JsNum(Whole(r))],
                scoreCalls[k].buckets, scoreCalls[k].mode).out

FacesRankedDefense ==
  /\ scorePlayer.defRank.t = "num"
  /\ scorePlayer.defRank.num \in {Whole(r) : r \in DefRanks}

\* C27: in both view modes, the score of a player facing a defense of some
\* rank is never lower than the score the same player gets, all else equal,
\* against a tougher defense (a lower rank number).
C27_SofterDefenseNeverScoresLower ==
  \A k \in 1..Len(scoreCalls) :
    FacesRankedDefense =>
      \A tougher \in DefRanks :
        Less(Whole(tougher), scorePlayer.defRank.num) =>
          LessEq(AgainstDefense(k, tougher), scoreCalls[k].out)

(***************************************************************************)
(* Defense-rank refresh: refreshDefenseRanks, its callers and the file     *)
(***************************************************************************)
DEFENSE_REFRESH_MS == 21600000

\* Date.now() when the server starts, and how far the clock moves in a step.
StartTime == 3 * DEFENSE_REFRESH_MS
RefreshTick == DEFENSE_REFRESH_MS
MaxRefreshTicks == 2
MaxRefreshCalls == 2

RefreshCalls == 1..MaxRefreshCalls

\* The callers: app.listen, the interval timer, GET /api/defense-rankings and
\* POST /api/admin/refresh-defense.
CallKinds == {"startup", "timer", "request", "admin"}

\* The force argument each caller passes.
ForceOf(kind) == kind \in {"startup", "admin"}

RankRow(team, overall) == [team |-> team, overall |-> overall]

\* server/data/defense-rankings.json as bundled, and two arrays a source yields.
BundledRanks == <<RankRow("KC", 16), RankRow("DAL", 16)>>
RanksA == <<RankRow("KC", 3), RankRow("DAL", 20)>>
RanksB == <<RankRow("KC", 4), RankRow("DAL", 20), RankRow("BUF", 9)>>

\* process.env.DEFENSE_RANKINGS_SOURCE: unset, blank, or a location
RankSources ==
  { <<>>, <<" ", " ">>, <<"r", "a", "n", "k", "s", ".", "c", "s", "v">> }

\* What loading and parsing the source comes to: the load throws, the source
\* is empty, or buildDefenseRanksFromRaw returns an array (possibly empty).
LoadOutcomes ==
  { [kind |-> "error", ranks |-> <<>>],
    [kind |-> "empty", ranks |-> <<>>],
    [kind |-> "ranks", ranks |-> <<>>],
    [kind |-> "ranks", ranks |-> RanksA],
    [kind |-> "ranks", ranks |-> RanksB] }

IdleCall ==
  [pc |-> "idle", kind |-> "none", attempted |-> FALSE, replaced |-> FALSE,
   ranks |-> <<>>, result |-> FALSE]

\* const shouldRefresh = force || Date.now() - lastDefenseRefresh > DEFENSE_REFRESH_MS
ShouldRefresh(force, t, last) == force \/ t - last > DEFENSE_REFRESH_MS

\* The warning is logged on every skipped refresh.
WarningsAfterEverySkip(logged, count) == count + 1

\* if (!defenseSourceWarningLogged) { console.warn(...); ... }
WarningsAfterSkip(logged, count) == IF ~logged THEN count + 1 ELSE count

RefreshIdle ==
  /\ rankSource = <<>>
  /\ refreshNow = StartTime
  /\ lastDefenseRefresh = 0
  /\ defenseSourceWarningLogged = FALSE
  /\ warnings = 0
  /\ defenseRanks = BundledRanks
  /\ defenseFile = BundledRanks
  /\ refreshCall = [c \in RefreshCalls |-> IdleCall]

RefreshTime ==
  /\ refreshNow < StartTime + MaxRefreshTicks * RefreshTick
  /\ refreshNow' = refreshNow + RefreshTick
  /\ UNCHANGED <<rankSource, lastDefenseRefresh, defenseSourceWarningLogged, warnings,
                 defenseRanks, defenseFile, refreshCall>>
  /\ UNCHANGED outsideRefresh

\* refreshDefenseRanks(force) up to its first await, lines 203-219: not due,
\* no source configured, or the load is started.
RefreshBegin(c, kind) ==
  /\ refreshCall[c].pc = "idle"
  /\ \A d \in 1..(c - 1) : refreshCall[d].pc # "idle"
  /\ IF ~ShouldRefresh(ForceOf(kind), refreshNow, lastDefenseRefresh)
     THEN /\ refreshCall' = [refreshCall EXCEPT ![c] = [IdleCall EXCEPT !.pc = "done", !.kind = kind]]
          /\ UNCHANGED <<defenseSourceWarningLogged, warnings>>
     ELSE IF Trim(rankSource) = <<>>
     THEN /\ warnings' = WarningsAfterSkip(defenseSourceWarningLogged, warnings)
          /\ defenseSourceWarningLogged' = TRUE
          /\ refreshCall' = [refreshCall EXCEPT ![c] = [IdleCall EXCEPT !.pc = "done", !.kind = kind]]
     ELSE /\ refreshCall' = [refreshCall EXCEPT ![c] =
                               [IdleCall EXCEPT !.pc = "loading", !.kind = kind,
                                                !.attempted = TRUE]]
          /\ UNCHANGED <<defenseSourceWarningLogged, warnings>>
  /\ UNCHANGED <<rankSource, refreshNow, lastDefenseRefresh, defenseRanks, defenseFile>>
  /\ UNCHANGED outsideRefresh

\* Lines 220-228: the load settles; a usable array replaces the ranks in
\* memory and the write of the file is started.
RefreshLoaded(c, outcome) ==
  /\ refreshCall[c].pc = "loading"
  /\ IF outcome.kind = "ranks" /\ outcome.ranks # <<>>
     THEN /\ defenseRanks' = outcome.ranks
          /\ lastDefenseRefresh' = refreshNow
          /\ refreshCall' = [refreshCall EXCEPT ![c].pc = "writing", ![c].replaced = TRUE,
                                                ![c].ranks = outcome.ranks]
     ELSE /\ refreshCall' = [refreshCall EXCEPT ![c].pc = "done"]
          /\ UNCHANGED <<defenseRanks, lastDefenseRefresh>>
  /\ UNCHANGED <<rankSource, refreshNow, defenseSourceWarningLogged, warnings, defenseFile>>
  /\ UNCHANGED outsideRefresh

\* The writeFile of call c completes: the file holds c's array. Writes of
\* overlapping calls complete in either order.
RefreshWritten(c) ==
  /\ refreshCall[c].pc = "writing"
  /\ defenseFile' = refreshCall[c].ranks
  /\ refreshCall' = [refreshCall EXCEPT ![c].pc = "done", ![c].result = TRUE]
  /\ UNCHANGED <<rankSource, refreshNow, lastDefenseRefresh, defenseSourceWarningLogged,
                 warnings, defenseRanks>>
  /\ UNCHANGED outsideRefresh

\* The writeFile of call c rejects: the catch block returns false.
RefreshWriteFailed(c) ==
  /\ refreshCall[c].pc = "writing"
  /\ refreshCall' = [refreshCall EXCEPT ![c].pc = "done"]
  /\ UNCHANGED <<rankSource, refreshNow, lastDefenseRefresh, defenseSourceWarningLogged,
                 warnings, defenseRanks, defenseFile>>
  /\ UNCHANGED outsideRefresh

NextRefresh ==
  \/ RefreshTime
  \/ \E c \in RefreshCalls, kind \in CallKinds : RefreshBegin(c, kind)
  \/ \E c \in RefreshCalls, outcome \in LoadOutcomes : RefreshLoaded(c, outcome)
  \/ \E c \in RefreshCalls : RefreshWritten(c)
  \/ \E c \in RefreshCalls : RefreshWriteFailed(c)

\* C18: with no source configured the warning is logged at most once, every
\* call returns false without attempting a load, and the ranks in memory stay
\* the bundled defaults.
C18_UnconfiguredWarnsOnceKeepsDefaults ==
  Trim(rankSource) = <<>> =>
    /\ warnings <= 1
    /\ \A c \in RefreshCalls :
         /\ ~refreshCall[c].attempted
         /\ refreshCall[c].pc \in {"idle", "done"}
         /\ ~refreshCall[c].result
    /\ defenseRanks = BundledRanks

\* A blank source, a forced call and a later timer call that was due, both
\* finished as skipped, one warning logged.
C18_Witness ==
  /\ rankSource = <<" ", " ">>
  /\ \E c, d \in RefreshCalls :
       /\ refreshCall[c].pc = "done"
       /\ refreshCall[c].kind = "admin"
       /\ refreshCall[d].pc = "done"
       /\ refreshCall[d].kind = "timer"
  /\ refreshNow > StartTime
  /\ warnings = 1
  /\ defenseSourceWarningLogged

\* C19: once every refresh has run to completion, if one of them replaced
\* the ranks in memory then the file holds the array that is in memory.
C19_FileEqualsMemoryAfterRefreshes ==
  ((\A c \in RefreshCalls : refreshCall[c].pc \in {"idle", "done"})
     /\ \E c \in RefreshCalls : refreshCall[c].replaced)
    => defenseFile = defenseRanks

\* Call c has returned false and no other call has started.
OnlyCallReturnedFalse(c) ==
  /\ refreshCall[c].pc = "done"
  /\ ~refreshCall[c].result
  /\ \A d \in RefreshCalls \ {c} : refreshCall[d].pc = "idle"

\* C25: a refreshDefenseRanks call that returns false leaves the ranks in
\* memory and the last-refresh timestamp as they were before it; for the
\* first call of a run these are the bundled ranks and 0.
C25_FalseRefreshLeavesMemory ==
  \A c \in RefreshCalls :
    OnlyCallReturnedFalse(c) =>
      /\ defenseRanks = BundledRanks
      /\ lastDefenseRefresh = 0

(***************************************************************************)
(* SpecLookup: computeVegasContext, pickBestPlayerMatch and lookupWeather  *)
(* called on known and unknown entities                                    *)
(***************************************************************************)
LookupReturned(value) == [kind |-> "returned", value |-> value]
LookupThrown(message) == [kind |-> "thrown", value |-> message]

\* What fetchJSON gives lookupWeather: a forecast, or it throws.
FetchOutcomes ==
  { [ok |-> FALSE, forecast |-> Forecast(JsUndef, JsUndef, JsUndef, JsUndef)] }
    \cup { [ok |-> TRUE, forecast |-> f] : f \in Forecasts }

\* Lines 263-279 of lookupWeather on the values picked from the forecast.
WeatherFromHours(tempC, rain) ==
  IF tempC.t # "num" \/ rain.t # "num" THEN LookupThrown("Incomplete weather data")
  ELSE LookupReturned(WeatherSummary(tempC.num, rain.num))

\* lookupWeather(team) at time t with the cache as given, as its caller sees it.
lookupWeather(cache, team, t, fetched) ==
  IF WeatherFresh(cache, team, t) THEN LookupReturned(cache[team].value)
  ELSE IF team \notin StadiumTeams THEN LookupThrown("Unknown team")
  ELSE IF ~fetched.ok THEN LookupThrown("Request failed")
  ELSE WeatherFromHours(PickHour(fetched.forecast.temp12, fetched.forecast.temp0),
                        PickHour(fetched.forecast.rain12, fetched.forecast.rain0))

\* The team arguments: two with a stadium and a game, one with a stadium and
\* no game, one unknown.
LookupTeams == { KC, DAL, BUF, <<"X", "X">> }

CachedKcWeather(expiresAt) ==
  KC :> [value |-> WeatherSummary(Whole(20), Whole(55)), expiresAt |-> expiresAt]

\* weatherCache: empty, or holding a live or an expired entry for KC
LookupWeatherCaches ==
  { [k \in {} |-> k], CachedKcWeather(WEATHER_TTL_MS), CachedKcWeather(0) }

\* scoreboardCache.contexts: empty, or built from a scoreboard
LookupContexts == { buildTeamContexts(sb) : sb \in ScoreboardPayloads }

NoArgs ==
  [fn |-> "none", team |-> <<>>, query |-> <<>>, list |-> <<>>,
   ctxs |-> EmptyContexts, sb |-> NullScoreboard, cache |-> [k \in {} |-> k]]

LookupArgs ==
  { [NoArgs EXCEPT !.fn = "computeVegasContext", !.team = tm, !.ctxs = cx, !.sb = sb] :
      tm \in LookupTeams, cx \in LookupContexts, sb \in ScoreboardPayloads }
    \cup { [NoArgs EXCEPT !.fn = "pickBestPlayerMatch", !.list = pl, !.query = q] :
             pl \in PlayerLists(MaxPlayers), q \in Queries }
    \cup { [NoArgs EXCEPT !.fn = "lookupWeather", !.team = tm, !.cache = wc] :
             tm \in LookupTeams, wc \in LookupWeatherCaches }

NotCalled == [done |-> FALSE, kind |-> "none", value |-> JsNull]

LookupIdle ==
  /\ lookupArgs = NoArgs
  /\ lookupOut = NotCalled

Outcome(out) == [done |-> TRUE, kind |-> out.kind, value |-> out.value]

CallComputeVegasContext ==
  /\ ~lookupOut.done
  /\ lookupArgs.fn = "computeVegasContext"
  /\ lookupOut' = Outcome(LookupReturned(
                    computeVegasContext(lookupArgs.ctxs, lookupArgs.team, lookupArgs.sb).context))
  /\ UNCHANGED lookupArgs
  /\ UNCHANGED outsideLookup

CallPickBestPlayerMatch ==
  /\ ~lookupOut.done
  /\ lookupArgs.fn = "pickBestPlayerMatch"
  /\ lookupOut' = Outcome(LookupReturned(
                    pickBestPlayerMatch(SleeperList(lookupArgs.list), lookupArgs.query)))
  /\ UNCHANGED lookupArgs
  /\ UNCHANGED outsideLookup

CallLookupWeather ==
  /\ ~lookupOut.done
  /\ lookupArgs.fn = "lookupWeather"
  /\ \E fetched \in FetchOutcomes :
       lookupOut' = Outcome(lookupWeather(lookupArgs.cache, lookupArgs.team, 0, fetched))
  /\ UNCHANGED lookupArgs
  /\ UNCHANGED outsideLookup

NextLookup == CallComputeVegasContext \/ CallPickBestPlayerMatch \/ CallLookupWeather

\* The team has no game: neither the cached contexts nor the scoreboard's
\* games name it.
NoGameFor(team) ==
  /\ team \notin DOMAIN lookupArgs.ctxs
  /\ team \notin DOMAIN buildTeamContexts(lookupArgs.sb)

\* The query matches no entry of the directory under any tier.
MatchesNoPlayer ==
  \A i \in 1..Len(lookupArgs.list) :
    MatchScore(SleeperList(lookupArgs.list)[i], ToLowerCase(lookupArgs.query),
               SplitSpaces(ToLowerCase(lookupArgs.query), <<>>)) = 0

\* C20: a lookup for an unknown entity returns null or an empty result and
\* never raises: computeVegasContext for a team with no game returns null,
\* pickBestPlayerMatch for a name matching no player returns null, and
\* lookupWeather for a team with no stadium entry returns instead of throwing.
C20_UnknownEntityReturnsEmpty ==
  lookupOut.done =>
    /\ (lookupArgs.fn = "computeVegasContext" /\ NoGameFor(lookupArgs.team)) =>
         (lookupOut.kind = "returned" /\ lookupOut.value = JsNull)
    /\ (lookupArgs.fn = "pickBestPlayerMatch" /\ MatchesNoPlayer) =>
         (lookupOut.kind = "returned" /\ lookupOut.value.isNull)
    /\ (lookupArgs.fn = "lookupWeather" /\ lookupArgs.team \notin StadiumTeams) =>
         lookupOut.kind = "returned"

(***************************************************************************)
(* SpecBoard: the scoreboard snapshot and its context index under          *)
(* overlapping getScoreboard calls                                         *)
(***************************************************************************)
MaxBoardCalls == 2
BoardCalls == 1..MaxBoardCalls

\* The clock is read at multiples of the scoreboard TTL.
MaxBoardTicks == 1

\* Who calls getScoreboard: GET /api/vegas-context ("route", which then calls
\* computeVegasContext), ensureScoreboardContexts ("ensure") and the refresh
\* interval and the news route ("plain").
BoardKinds == {"route", "ensure", "plain"}

BoardGame(home, away, details) ==
  Event(JsObj([competitors |-> <<Competitor("home", JsStr(home)), Competitor("away", JsStr(away))>>,
               odds |-> <<[overUnder |-> JsNum(Whole(41)), details |-> JsStr(details),
                           spread |-> JsUndef]>>,
               date |-> ""]))

\* The bodies the scoreboard endpoint answers with: null, a week without
\* games, and two weeks with one game each.
BoardPayloads ==
  { NullScoreboard,
    [isNull |-> FALSE, events |-> <<>>],
    [isNull |-> FALSE, events |-> <<BoardGame(KC, DAL, <<"K", "C", " ", "-", "3", ".", "5">>)>>],
    [isNull |-> FALSE, events |-> <<BoardGame(BUF, KC, <<"B", "U", "F", " ", "-", "3">>)>>] }

\* A body whose events field is an object, not an array: events.forEach is not
\* a function and buildTeamContexts throws a TypeError.
EventsObjectScoreboard == [isNull |-> FALSE, events |-> <<>>, eventsShape |-> "object"]

\* scoreboard?.events?.forEach(...) throws on this body.
BuildThrows(sb) == "eventsShape" \in DOMAIN sb

BoardTeams == {KC, DAL}

IdleBoardCall ==
  [pc |-> "idle", kind |-> "plain", team |-> <<>>, targetDate |-> 0,
   stored |-> NullScoreboard, missed |-> FALSE]

\* A finished call: what its getScoreboard stored, if it fetched, and whether
\* its route missed the team.
DoneBoardCall(kind, stored, missed) ==
  [IdleBoardCall EXCEPT !.pc = "done", !.kind = kind, !.stored = stored, !.missed = missed]

BoardIdle ==
  /\ boardCache = EmptyScoreboardCache
  /\ boardNow = 0
  /\ boardCall = [c \in BoardCalls |-> IdleBoardCall]

\* Call c is the next one to start.
NextBoardCall(c) ==
  /\ boardCall[c].pc = "idle"
  /\ \A b \in BoardCalls : b < c => boardCall[b].pc # "idle"

\* if (scoreboardCache.contexts && Object.keys(scoreboardCache.contexts).length) return
EnsureReturnsEarly(cache) == DOMAIN cache.contexts # {}

\* The cache after the caller's continuation: the route looks its team up in
\* the scoreboard getScoreboard returned, the other callers do nothing more.
AfterCaller(cache, kind, team, sb) ==
  IF kind = "route"
  THEN [cache EXCEPT !.contexts = computeVegasContext(cache.contexts, team, sb).contexts]
  ELSE cache

\* The team parameter, which only the route has.
TeamOfCaller(kind, team) == IF kind = "route" THEN team ELSE <<>>

\* The route found no context for its team in the index it was handed.
RouteMissed(cache, kind, team) ==
  kind = "route" /\ ToUpperCase(team) \notin DOMAIN cache.contexts

BoardTick ==
  /\ boardNow < MaxBoardTicks * SCOREBOARD_TTL_MS
  /\ boardNow' = boardNow + SCOREBOARD_TTL_MS
  /\ UNCHANGED <<boardCache, boardCall>>
  /\ UNCHANGED outsideBoard

\* ensureScoreboardContexts with a non-empty index
BoardEnsureSkip(c) ==
  /\ NextBoardCall(c)
  /\ EnsureReturnsEarly(boardCache)
  /\ boardCall' = [boardCall EXCEPT ![c] = DoneBoardCall("ensure", NullScoreboard, FALSE)]
  /\ UNCHANGED <<boardCache, boardNow>>
  /\ UNCHANGED outsideBoard

\* getScoreboard answers from the live snapshot; the caller continues.
BoardHit(c, kind, team) ==
  /\ NextBoardCall(c)
  /\ kind = "ensure" => ~EnsureReturnsEarly(boardCache)
  /\ ScoreboardFresh(boardCache, boardNow, getUpcomingScoreboardDate(boardNow))
  /\ boardCache' = AfterCaller(boardCache, kind, team, boardCache.data)
  /\ boardCall' = [boardCall EXCEPT ![c] =
                     DoneBoardCall(kind, NullScoreboard, RouteMissed(boardCache, kind, team))]
  /\ UNCHANGED boardNow
  /\ UNCHANGED outsideBoard

\* getScoreboard finds no live snapshot for the coming date and awaits fetchJSON.
BoardFetch(c, kind, team) ==
  /\ NextBoardCall(c)
  /\ kind = "ensure" => ~EnsureReturnsEarly(boardCache)
  /\ ~ScoreboardFresh(boardCache, boardNow, getUpcomingScoreboardDate(boardNow))
  /\ boardCall' = [boardCall EXCEPT ![c] =
                     [IdleBoardCall EXCEPT !.pc = "loading", !.kind = kind,
                                           !.team = TeamOfCaller(kind, team),
                                           !.targetDate = getUpcomingScoreboardDate(boardNow)]]
  /\ UNCHANGED <<boardCache, boardNow>>
  /\ UNCHANGED outsideBoard

\* fetchJSON resolved: lines 288-291 replace the cache, then the caller continues.
BoardArrived(c, data) ==
  /\ boardCall[c].pc = "loading"
  /\ \E stored \in {ScoreboardStore(boardCache, data, boardNow, boardCall[c].targetDate)} :
       /\ boardCache' = AfterCaller(stored, boardCall[c].kind, boardCall[c].team, data)
       /\ boardCall' = [boardCall EXCEPT ![c] =
                          DoneBoardCall(boardCall[c].kind, data,
                                        RouteMissed(stored, boardCall[c].kind, boardCall[c].team))]
  /\ UNCHANGED boardNow
  /\ UNCHANGED outsideBoard

\* fetchJSON resolved with a body buildTeamContexts throws on: lines 288-290
\* have replaced data, expiresAt and dateKey when line 291 throws, and
\* getScoreboard rejects.
BoardArrivedUnreadable(c) ==
  /\ boardCall[c].pc = "loading"
  /\ boardCache' = [boardCache EXCEPT !.data = EventsObjectScoreboard,
                                      !.expiresAt = boardNow + SCOREBOARD_TTL_MS,
                                      !.dateKey = boardCall[c].targetDate]
  /\ boardCall' = [boardCall EXCEPT ![c] =
                     DoneBoardCall(boardCall[c].kind, EventsObjectScoreboard, FALSE)]
  /\ UNCHANGED boardNow
  /\ UNCHANGED outsideBoard

\* fetchJSON threw: getScoreboard rejects with the cache untouched.
BoardRejected(c) ==
  /\ boardCall[c].pc = "loading"
  /\ boardCall' = [boardCall EXCEPT ![c] = DoneBoardCall(boardCall[c].kind, NullScoreboard, FALSE)]
  /\ UNCHANGED <<boardCache, boardNow>>
  /\ UNCHANGED outsideBoard

NextBoard ==
  \/ BoardTick
  \/ \E c \in BoardCalls : BoardEnsureSkip(c)
  \/ \E c \in BoardCalls, kind \in BoardKinds, team \in BoardTeams : BoardHit(c, kind, team)
  \/ \E c \in BoardCalls, kind \in BoardKinds, team \in BoardTeams : BoardFetch(c, kind, team)
  \/ \E c \in BoardCalls, data \in BoardPayloads : BoardArrived(c, data)
  \/ \E c \in BoardCalls : BoardArrivedUnreadable(c)
  \/ \E c \in BoardCalls : BoardRejected(c)

\* The index a snapshot gives: none when buildTeamContexts cannot read it.
IndexOfSnapshot(sb) == IF BuildThrows(sb) THEN EmptyContexts ELSE buildTeamContexts(sb)

\* C23: whenever a scoreboard snapshot is cached, the context index is
\* buildTeamContexts of that snapshot, and the snapshot carries the expiry and
\* the date key it was stored with.
C23_ContextsMatchCachedSnapshot ==
  ~boardCache.data.isNull =>
    /\ boardCache.contexts = IndexOfSnapshot(boardCache.data)
    /\ boardCache.expiresAt >= SCOREBOARD_TTL_MS
    /\ boardCache.expiresAt <= boardNow + SCOREBOARD_TTL_MS
    /\ boardCache.dateKey >= 0

(***************************************************************************)
(* SpecNews: getFantasyNews and the news cache                             *)
(***************************************************************************)
NEWS_TTL_MS == 600000

MaxNewsCalls == 2
NewsCalls == 1..MaxNewsCalls

\* The clock is read at multiples of the news TTL.
MaxNewsTicks == 2

\* A news list, by the ids of its items; newsCache.data is null at first.
NoNews == [isNull |-> TRUE, items |-> <<>>]
News(items) == [isNull |-> FALSE, items |-> items]

\* const newsCache = { data: null, expiresAt: 0 }
EmptyNewsCache == [data |-> NoNews, expiresAt |-> 0]

\* The bundled dataset (data/news-sample.json).
sampleNews == News(<<"sample-1", "sample-2">>)

\* What fetchEspnNews resolves with, and what the FantasyLife body maps to.
EspnLists == { <<>>, <<"espn-1">>, <<"espn-2", "espn-3">> }
FantasyLifeLists == { <<>>, <<"fl-1">> }

IdleNewsCall == [pc |-> "idle", heldFetched |-> FALSE, out |-> NoNews]

NewsIdle ==
  /\ newsCache = EmptyNewsCache
  /\ newsNow = 0
  /\ newsCall = [c \in NewsCalls |-> IdleNewsCall]

\* Call c is the next one to start.
NextNewsCall(c) ==
  /\ newsCall[c].pc = "idle"
  /\ \A b \in NewsCalls : b < c => newsCall[b].pc # "idle"

\* newsCache.data && newsCache.expiresAt > Date.now()
NewsFresh(cache, t) == ~cache.data.isNull /\ cache.expiresAt > t

\* newsCache.data = value; newsCache.expiresAt = Date.now() + NEWS_TTL_MS
NewsStore(value, t) == [data |-> value, expiresAt |-> t + NEWS_TTL_MS]

\* The cache holds a value a provider answered with, not the bundled one.
HoldsFetched(cache) == ~cache.data.isNull /\ cache.data # sampleNews

NewsTick ==
  /\ newsNow < MaxNewsTicks * NEWS_TTL_MS
  /\ newsNow' = newsNow + NEWS_TTL_MS
  /\ UNCHANGED <<newsCache, newsCall>>
  /\ UNCHANGED outsideNews

\* Lines 385-387: the live entry is returned.
NewsHit(c) ==
  /\ NextNewsCall(c)
  /\ NewsFresh(newsCache, newsNow)
  /\ newsCall' = [newsCall EXCEPT ![c] = [IdleNewsCall EXCEPT !.pc = "done", !.out = newsCache.data]]
  /\ UNCHANGED <<newsCache, newsNow>>
  /\ UNCHANGED outsideNews

\* No live entry: await fetchEspnNews().
NewsFetch(c) ==
  /\ NextNewsCall(c)
  /\ ~NewsFresh(newsCache, newsNow)
  /\ newsCall' = [newsCall EXCEPT ![c] =
                    [IdleNewsCall EXCEPT !.pc = "espn", !.heldFetched = HoldsFetched(newsCache)]]
  /\ UNCHANGED <<newsCache, newsNow>>
  /\ UNCHANGED outsideNews

\* fetchEspnNews resolved with at least one item: lines 391-395.
EspnArrived(c, list) ==
  /\ newsCall[c].pc = "espn"
  /\ list # <<>>
  /\ newsCache' = NewsStore(News(list), newsNow)
  /\ newsCall' = [newsCall EXCEPT ![c].pc = "done", ![c].out = News(list)]
  /\ UNCHANGED newsNow
  /\ UNCHANGED outsideNews

\* fetchEspnNews threw or resolved with no item ("No ESPN news available"):
\* the catch logs, and the FantasyLife body is awaited.
EspnFailed(c) ==
  /\ newsCall[c].pc = "espn"
  /\ newsCall' = [newsCall EXCEPT ![c].pc = "fantasylife"]
  /\ UNCHANGED <<newsCache, newsNow>>
  /\ UNCHANGED outsideNews

\* The FantasyLife body arrived and was mapped: lines 402-415.
FantasyLifeArrived(c, list) ==
  /\ newsCall[c].pc = "fantasylife"
  /\ newsCache' = NewsStore(News(list), newsNow)
  /\ newsCall' = [newsCall EXCEPT ![c].pc = "done", ![c].out = News(list)]
  /\ UNCHANGED newsNow
  /\ UNCHANGED outsideNews

\* The FantasyLife fetch or the mapping threw: lines 416-422.
FantasyLifeFailed(c) ==
  /\ newsCall[c].pc = "fantasylife"
  /\ newsCache' = NewsStore(sampleNews, newsNow)
  /\ newsCall' = [newsCall EXCEPT ![c].pc = "done", ![c].out = sampleNews]
  /\ UNCHANGED newsNow
  /\ UNCHANGED outsideNews

NextNews ==
  \/ NewsTick
  \/ \E c \in NewsCalls : NewsHit(c)
  \/ \E c \in NewsCalls : NewsFetch(c)
  \/ \E c \in NewsCalls, list \in EspnLists : EspnArrived(c, list)
  \/ \E c \in NewsCalls : EspnFailed(c)
  \/ \E c \in NewsCalls, list \in FantasyLifeLists : FantasyLifeArrived(c, list)
  \/ \E c \in NewsCalls : FantasyLifeFailed(c)

\* Call c, which started on an expired fetched value, ends in this step with
\* both providers failed.
BothProvidersFailed(c) ==
  /\ newsCall[c].pc = "fantasylife"
  /\ newsCall[c].heldFetched
  /\ newsCall'[c].pc = "done"
  /\ newsCall'[c].out = sampleNews

\* C24: when a getFantasyNews call that started on an expired, previously
\* fetched value ends with both providers failed, the step that returns the
\* bundled dataset leaves the cached value and its expiry as they were.
C24_FailedProvidersKeepCachedNews ==
  [][\A c \in NewsCalls : BothProvidersFailed(c) => newsCache' = newsCache]_vars

(***************************************************************************)
(* Specifications                                                          *)
(***************************************************************************)
\* Every part of the program other than the one a specification exercises
\* stays as it is at start.
IdleExcept(spec) ==
  /\ spec # "Vegas" => VegasIdle
  /\ spec # "Cache" => CacheIdle
  /\ spec # "Defense" => DefenseIdle
  /\ spec # "Weights" => WeightsIdle
  /\ spec # "Csv" => CsvIdle
  /\ spec # "Search" => SearchIdle
  /\ spec # "Score" => ScoreIdle
  /\ spec # "Refresh" => RefreshIdle
  /\ spec # "Lookup" => LookupIdle
  /\ spec # "Board" => BoardIdle
  /\ spec # "News" => NewsIdle

InitVegas ==
  /\ scoreboard \in Scoreboards
  /\ parsed = <<>>
  /\ contexts = EmptyContexts
  /\ built = FALSE
  /\ IdleExcept("Vegas")

SpecVegas == InitVegas /\ [][NextVegas]_vars

InitCache ==
  /\ IdleExcept("Cache")
  /\ target \in Targets
  /\ now = 0
  /\ icache = EmptyIndexCache
  /\ weatherCache = EmptyContexts
  /\ scoreboardCache = EmptyScoreboardCache
  /\ req = [r \in Reqs |-> IdleReq]
  /\ lastOk = NoLoad

SpecCache == InitCache /\ [][NextCache]_vars

InitDefense ==
  /\ IdleExcept("Defense")
  /\ defenseEnv \in WeightSettings
  /\ rawPayload \in RawPayloads
  /\ mapped = <<>>
  /\ normalizedRanks = Returned(<<>>)
  /\ normalizeDone = FALSE

SpecDefense == InitDefense /\ [][NextDefense]_vars

InitWeights ==
  /\ IdleExcept("Weights")
  /\ weightEnv \in AllWeightSettings
  /\ resolved = Unresolved

SpecWeights == InitWeights /\ [][NextWeights]_vars

InitCsv ==
  /\ IdleExcept("Csv")
  /\ csvSource \in FieldLists \cup {<<>>}
  /\ csvLine \in (IF csvSource = <<>> THEN RawLines ELSE {WriteRow(csvSource)})
  /\ csvFields = NotSplit

SpecCsv == InitCsv /\ [][NextCsv]_vars

InitSearch ==
  /\ IdleExcept("Search")
  /\ players \in Directories
  /\ searchQuery \in Queries
  /\ searchLimit \in LimitParams
  /\ searchOut = NoSearch

SpecSearch == InitSearch /\ [][NextSearch]_vars

InitScore ==
  /\ IdleExcept("Score")
  /\ scorePlayer \in ScorePlayers
  /\ viewMode = "WEEK"
  /\ scoreCalls = <<>>

SpecScore == InitScore /\ [][NextScore]_vars

InitRefresh ==
  /\ IdleExcept("Refresh")
  /\ rankSource \in RankSources
  /\ refreshNow = StartTime
  /\ lastDefenseRefresh = 0
  /\ defenseSourceWarningLogged = FALSE
  /\ warnings = 0
  /\ defenseRanks = BundledRanks
  /\ defenseFile = BundledRanks
  /\ refreshCall = [c \in RefreshCalls |-> IdleCall]

SpecRefresh == InitRefresh /\ [][NextRefresh]_vars

InitLookup ==
  /\ IdleExcept("Lookup")
  /\ lookupArgs \in LookupArgs
  /\ lookupOut = NotCalled

SpecLookup == InitLookup /\ [][NextLookup]_vars

InitBoard ==
  /\ IdleExcept("Board")
  /\ boardCache = EmptyScoreboardCache
  /\ boardNow = 0
  /\ boardCall = [c \in BoardCalls |-> IdleBoardCall]

SpecBoard == InitBoard /\ [][NextBoard]_vars

InitNews ==
  /\ IdleExcept("News")
  /\ newsCache = EmptyNewsCache
  /\ newsNow = 0
  /\ newsCall = [c \in NewsCalls |-> IdleNewsCall]

SpecNews == InitNews /\ [][NextNews]_vars
====
